---- MODULE Spec2Model ----
(***************************************************************************)
(* Verification model of the in-guest supervisor (tether) of vic: the      *)
(* child reaper (childReaper / stopReaper), the session table, the toolbox *)
(* extension (Reload / Stop / halt / kill / authenticate) and the network  *)
(* configurator.                                                           *)
(*                                                                         *)
(* The kernel side (children, wait4(2), SIGCHLD, kill(2)) is the           *)
(* environment: it is modelled by what the system calls used in the source *)
(* do.  PIDs are handed out in increasing order and are not reused within  *)
(* a behaviour (the kernel allocates them sequentially).                   *)
(***************************************************************************)
EXTENDS Integers, FiniteSets, Sequences, TLC

\* ------------------------------------------------------------- bounds
MaxPid == 2           \* children the supervisor ever has (managed or adopted)
IncomingCap == 1      \* buffer of the t.incoming signal channel
MaxSnapshots == 2     \* configuration snapshots delivered in one behaviour
MaxSlot == 2          \* interfaces of the VM (slots 1..MaxSlot)
MaxApply == 2         \* configuration passes of the network configurator
MaxUpgrades == 2      \* Upgrade calls made on the appliance in one behaviour
MaxRegs == 2          \* insecure registries handed to the backends' Init
MaxPings == 3         \* pings of the port layer that fail before one succeeds

\* ---------------------------------------------------------- constants
NULL == "null"
Pids == 1..MaxPid
SessionIds == {"exec", "aux"}
Halts == {1, 2}                \* concurrent halt requests
\* holders of a session's lock, and senders of a signal
Free == 0
Reaper == -1
NoOne == 0
CredNames == SessionIds \cup {"other"}
ExitCodes == {0, 1}
NoStatus == [kind |-> "none", code |-> 0]
WaitStatuses ==
    {NoStatus}
    \cup [kind : {"exited"}, code : ExitCodes]
    \cup [kind : {"signaled"}, code : {"TERM", "KILL"}]
    \cup [kind : {"stopped", "continued"}, code : {0}]

\* A configuration snapshot as the toolbox and the supervisor read it: nil,
\* or the container's ID and the map of sessions (nil, or the ids it holds).
Snapshots == [nil : BOOLEAN, ID : SessionIds, hasMap : BOOLEAN, Sessions : SUBSET SessionIds]
ValidSnapshots ==
    {c \in Snapshots : /\ (c.nil => (~c.hasMap /\ c.ID = "exec"))
                       /\ (~c.hasMap => c.Sessions = {})}
NilConfig == [nil |-> TRUE, ID |-> "exec", hasMap |-> FALSE, Sessions |-> {}]
\* registered extensions, in registration order
Extensions == <<"Toolbox", "Attach">>
AllExtensions == 1..Len(Extensions)
\* session.StopSignal and the restart policy of each declared session
StopSignalOf(s) == IF s = "exec" THEN "TERM" ELSE ""
RestartOf(s) == s = "aux"

\* syscall.WaitStatus.Exited / Signaled / ExitStatus
Exited(ws) == ws.kind = "exited"
Signaled(ws) == ws.kind = "signaled"
ExitStatusOf(ws) == IF Exited(ws) THEN ws.code ELSE -1

VARIABLES
    \* kernel
    pst,            \* pid -> "unborn" | "running" | "zombie" | "reaped"
    wstatus,        \* pid -> wait status the kernel holds for a terminated child
    chg,            \* pid -> pending job-control report: "none" | "stopped" | "continued"
    psig,           \* pid -> pending signal [sig, by] sent to the child
    deathBy,        \* pid -> who sent the signal the child died from (NoOne: not signalled)
    sigchld,        \* SIGCHLD pending for the supervisor process
    nextPid,
    \* tether
    childPidTable,  \* pid -> session id | NULL
    ExitStatus,     \* session -> recorded exit status
    mHolder,        \* session -> holder of session.m (Free if none)
    notify,         \* signal.Notify(t.incoming, SIGCHLD) in force
    incoming,       \* number of notifications buffered in t.incoming
    incomingClosed,
    done,           \* t.done closed
    sendPanic,      \* a notification was written to t.incoming after its close
    \* reaper goroutine
    rpc, rpid, rws, rsess,
    osReported,     \* the wait status the kernel handed out last (for rpid, if a termination)
    passPending,    \* children that had terminated when the current notification was
                    \* taken and have not been dealt with since
    passN,          \* how many had terminated when the current notification was taken
    passEnd,        \* "shutdown" or "panic" when the pass was cut short by it, else "normal"
    \* supervisor
    sup,            \* supervisor state
    cpc,            \* position inside a Configuring pass ("idle" outside one)
    shpc,           \* position inside shutdown ("idle" before it)
    config,         \* the configuration snapshot in force
    nSnap,          \* snapshots delivered so far
    stopReq,        \* a stop of the supervisor has been requested
    cmdPid,         \* session -> pid of session.Cmd.Process (0: never launched)
    extStopped,     \* extensions whose Stop has returned
    extReloaded,    \* extensions whose Reload has returned for the snapshot in force
    extStarted,     \* extensions whose Start has returned in the current pass
    stopErrs,       \* extensions whose Stop returned an error (collected)
    relaunch,       \* a session with a restart policy has exited and awaits its relaunch
    explicitStop,   \* a stop was requested from outside
    \* toolbox
    tsession, tstopGen, tstopClosed,
    hpc,            \* halt request -> its position
    hsess,          \* the session it read
    hchan,          \* the t.stop channel its select reads (by generation)
    hres,           \* what it returned
    hforced,        \* it issued the forced kill
    hvia,           \* the case its select took: "stop" | "timer"
    hresp,          \* the session's process when the select took its case:
                    \* "responded" (dead from this request's stop signal) |
                    \* "running" | "other"

    authRes,        \* the last authenticate call: its input, the binding it read, its result
    startPc,        \* Toolbox.Start: "idle" | "select" (waiting for readiness)
    onClosed,       \* the channel `on` of the Start call is closed (power-on event received)
    serviceFailed,  \* t.Service.Start() of the last Start call returned an error
    startRes,       \* what the last Start call returned: "none" | "nil" | "error"
    startVia,       \* the case its select took: "none" | "on" | "timer"
    cmdRes,         \* the last start-program call: its input, the binding it read, its result
    \* appliance upgrade (vic-machine)
    upg,            \* dispatcher -> its Upgrade call: position, err, returned value, ...
    appliance,      \* the appliance VM: snapshots, power state, ISO of its cdrom
    images,         \* the upgrade images are on the image datastore
    upCalls,        \* Upgrade calls made so far
    \* network
    Interfaces,     \* slot -> [Name, Up, Addrs] of the interface in that slot
    renames,        \* slot -> times the interface has been renamed
    Networks,       \* network name -> the endpoint the configuration declares
    napplied,       \* endpoints applied so far in the current configuration pass
    nerr,           \* endpoints of the current pass that matched no interface
    nround,         \* configuration passes completed
    routes,         \* the default routes installed, by the network whose gateway they use
    prevPass,       \* interfaces, renames and routes as the last complete pass left them
    backend         \* the package state of the engine's backends and the progress of its Init

kernelVars == <<pst, wstatus, chg, psig, deathBy, sigchld, nextPid>>
tetherVars == <<childPidTable, ExitStatus, mHolder, notify, incoming,
                incomingClosed, done, sendPanic>>
reaperVars == <<rpc, rpid, rws, rsess, osReported, passPending, passN, passEnd>>
lifeVars == <<extReloaded, extStarted, stopErrs, relaunch, explicitStop>>
supVars == <<sup, cpc, shpc, config, nSnap, stopReq, cmdPid, extStopped, lifeVars>>
toolboxVars == <<tsession, tstopGen, tstopClosed>>
haltVars == <<hpc, hsess, hchan, hres, hforced, hvia, hresp>>
startVars == <<startPc, onClosed, serviceFailed, startRes, startVia>>
upVars == <<upg, appliance, images, upCalls>>
callVars == <<authRes, startVars, cmdRes, upVars, backend>>
netVars == <<Interfaces, renames, Networks, napplied, nerr, nround, routes, prevPass>>
coreVars == <<kernelVars, tetherVars, reaperVars, supVars, toolboxVars, haltVars, callVars>>
vars == <<kernelVars, tetherVars, reaperVars, supVars, toolboxVars, haltVars, callVars, netVars>>

\* ------------------------------------------------------------ kernel
\* A child terminates by itself, with an exit code or from a signal it
\* raised itself: it becomes a zombie and the kernel raises SIGCHLD for its
\* parent (or subreaper).
OwnTerminations == [kind : {"exited"}, code : ExitCodes] \cup {[kind |-> "signaled", code |-> "KILL"]}
ChildExit(p, ws) ==
    /\ pst[p] = "running"
    /\ pst' = [pst EXCEPT ![p] = "zombie"]
    /\ wstatus' = [wstatus EXCEPT ![p] = ws]
    /\ chg' = [chg EXCEPT ![p] = "none"]
    /\ psig' = [psig EXCEPT ![p] = [sig |-> "none", by |-> NoOne]]
    /\ sigchld' = TRUE
    /\ UNCHANGED <<deathBy, nextPid>>
    /\ UNCHANGED <<tetherVars, reaperVars, supVars, toolboxVars, haltVars, callVars, netVars>>

\* A running child is stopped or continued (job control): reported by
\* wait4 under WUNTRACED | WCONTINUED, and raises SIGCHLD as well.
ChildStopCont(p, k) ==
    /\ pst[p] = "running"
    /\ chg[p] = "none"
    /\ chg' = [chg EXCEPT ![p] = k]
    /\ sigchld' = TRUE
    /\ UNCHANGED <<pst, wstatus, psig, deathBy, nextPid>>
    /\ UNCHANGED <<tetherVars, reaperVars, supVars, toolboxVars, haltVars, callVars, netVars>>

\* A running child takes the signal pending for it: it dies from it, or
\* (any signal but KILL) it catches or ignores it and keeps running.
ChildTakeSignal(p, dies) ==
    /\ pst[p] = "running"
    /\ psig[p].sig # "none"
    /\ dies \/ psig[p].sig # "KILL"
    /\ psig' = [psig EXCEPT ![p] = [sig |-> "none", by |-> NoOne]]
    /\ IF dies
       THEN /\ pst' = [pst EXCEPT ![p] = "zombie"]
            /\ wstatus' = [wstatus EXCEPT ![p] = [kind |-> "signaled", code |-> psig[p].sig]]
            /\ deathBy' = [deathBy EXCEPT ![p] = psig[p].by]
            /\ chg' = [chg EXCEPT ![p] = "none"]
            /\ sigchld' = TRUE
       ELSE UNCHANGED <<pst, wstatus, deathBy, chg, sigchld>>
    /\ UNCHANGED nextPid
    /\ UNCHANGED <<tetherVars, reaperVars, supVars, toolboxVars, haltVars, callVars, netVars>>

\* An orphaned descendant is reparented to the supervisor (subreaper, and
\* process 1 of the VM in any case): it is a child of the supervisor with no
\* session record.
Adopt ==
    /\ sup \in {"Configuring", "Running", "Failed"}
    /\ nextPid <= MaxPid
    /\ pst' = [pst EXCEPT ![nextPid] = "running"]
    /\ nextPid' = nextPid + 1
    /\ UNCHANGED <<wstatus, chg, psig, deathBy, sigchld>>
    /\ UNCHANGED <<tetherVars, reaperVars, supVars, toolboxVars, haltVars, callVars, netVars>>

\* kill(2) as os.Process.Signal uses it: ESRCH ("os: process already
\* finished") once the pid has been reaped, success on a running child or a
\* zombie; the signal is left pending for a running child.
SignalOk(p) == pst[p] \in {"running", "zombie"}
SignalEffect(p, sig, by) ==
    IF pst[p] = "running" /\ psig[p].sig # "KILL"
    THEN [psig EXCEPT ![p] = [sig |-> sig, by |-> by]]
    ELSE psig

\* The Go runtime hands a pending SIGCHLD to the channels registered with
\* signal.Notify by a non-blocking send: dropped when the buffer is full,
\* ignored (the default disposition) when nothing is registered.  A send
\* on a closed channel panics.
DeliverSigchld ==
    /\ sigchld
    /\ sigchld' = FALSE
    /\ IF ~notify THEN UNCHANGED <<incoming, sendPanic>>
       ELSE IF incomingClosed THEN sendPanic' = TRUE /\ UNCHANGED incoming
       ELSE /\ incoming' = IF incoming < IncomingCap THEN incoming + 1 ELSE incoming
            /\ UNCHANGED sendPanic
    /\ UNCHANGED <<pst, wstatus, chg, psig, deathBy, nextPid>>
    /\ UNCHANGED <<childPidTable, ExitStatus, mHolder, notify, incomingClosed, done>>
    /\ UNCHANGED <<reaperVars, supVars, toolboxVars, haltVars, callVars, netVars>>

\* ------------------------------------------------------ session table
\* Remove(pid) -> (session, found)
removeChildPidTable(pid) == [childPidTable EXCEPT ![pid] = NULL]
removeChildPidFound(pid) == childPidTable[pid] # NULL
\* Lookup(pid) -> (session, found)
Lookup(pid) == childPidTable[pid]

\* ------------------------------------------------------------ reaper
\* childReaper(): signal.Notify, then prctl(PR_SET_CHILD_SUBREAPER); on
\* failure the error is returned and the goroutine is never started.
\* a faulty variant: the goroutine is started whatever prctl returned
AfterPrctlIgnoreErr(prctlOk) == "recv"
\* the go statement comes after the return of prctl's error
AfterPrctl(prctlOk) == IF prctlOk THEN "recv" ELSE "none"
ChildReaperStart(prctlOk) ==
    /\ sup = "Booting"
    /\ notify' = TRUE
    /\ rpc' = AfterPrctl(prctlOk)
    /\ IF prctlOk
       THEN sup' = "Configuring" /\ cpc' = "snapshot"
       ELSE sup' = "Failed" /\ cpc' = "idle"
    /\ UNCHANGED <<childPidTable, ExitStatus, mHolder, incoming, incomingClosed, done, sendPanic>>
    /\ UNCHANGED <<rpid, rws, rsess, osReported, passPending, passN, passEnd>>
    /\ UNCHANGED <<shpc, config, nSnap, stopReq, cmdPid, extStopped>>
    /\ UNCHANGED lifeVars
    /\ UNCHANGED <<kernelVars, toolboxVars, haltVars, callVars, netVars>>

\* a faulty variant: the body of the range is started as a goroutine of its
\* own, so the range takes the next notification while a pass is running
PassFreeAnyTime(pc) == pc \notin {"none", "stopped"}
\* the body of the range is a function literal called in place,
\* func() { ... }(): the range takes its next value only after it returned
PassFree(pc) == pc = "recv"
\* a faulty variant: the receive on the closed, empty channel blocks
AfterRangeEndBlocks == "recv"
\* the range over a closed channel ends once its buffer is empty; the
\* goroutine logs and returns
AfterRangeEnd == "stopped"
\* for range t.incoming: take one notification, or end when the channel
\* is closed and empty.
ReaperRecv ==
    /\ PassFree(rpc)
    /\ IF incoming > 0
       THEN /\ incoming' = incoming - 1
            /\ rpc' = "check"
            /\ passPending' = {p \in Pids : pst[p] = "zombie"}
            /\ passN' = Cardinality({p \in Pids : pst[p] = "zombie"})
            /\ passEnd' = "normal"
       ELSE /\ incomingClosed
            /\ rpc' = AfterRangeEnd
            /\ UNCHANGED <<incoming, passPending, passN, passEnd>>
    /\ UNCHANGED <<rpid, rws, rsess, osReported>>
    /\ UNCHANGED <<childPidTable, ExitStatus, mHolder, notify, incomingClosed, done, sendPanic>>
    /\ UNCHANGED <<kernelVars, supVars, toolboxVars, haltVars, callVars, netVars>>

\* a faulty variant: shutdown is noticed but the pass is finished first
AfterDoneFinishPass == "wait4"
\* case <-t.done: the return leaves the drain of this notification; the
\* range over t.incoming goes on
AfterDone == "recv"
\* select { case <-t.done: return; default: }
ReaperCheckDone ==
    /\ rpc = "check"
    /\ IF done
       THEN rpc' = AfterDone /\ passEnd' = "shutdown"
       ELSE rpc' = "wait4" /\ UNCHANGED passEnd
    /\ UNCHANGED <<rpid, rws, rsess, osReported, passPending, passN>>
    /\ UNCHANGED <<kernelVars, tetherVars, supVars, toolboxVars, haltVars, callVars, netVars>>

\* Children wait4(-1, WNOHANG|WUNTRACED|WCONTINUED) can report, and the
\* children there are at all (none: ECHILD).
Reportable == {p \in Pids : pst[p] = "zombie" \/ (pst[p] = "running" /\ chg[p] # "none")}
Children == {p \in Pids : pst[p] \in {"running", "zombie"}}
\* the status wait4 reports for child p
WaitReport(p) == IF pst[p] = "zombie" THEN wstatus[p] ELSE [kind |-> chg[p], code |-> 0]
\* !status.Exited() && !status.Signaled() is the non-exit case
IsTermination(ws) == Exited(ws) \/ Signaled(ws)
\* where the drain loop goes after a termination was reaped / after a
\* non-exit report (continue)
AfterReap == "remove"
\* a faulty variant: a non-exit report ends the drain
AfterNonExitBreak == "recv"
AfterNonExit == "check"
\* a faulty variant: an adopted zombie ends the drain
AfterAdoptedBreak == "recv"
\* after an adopted zombie was reaped (logged): the next reap attempt
AfterAdopted == "check"
\* a faulty variant: one reap per notification
AfterCallbackOnce == "recv"
\* where it goes once a session's exit has been handled: the next reap attempt
AfterCallback == "check"

\* what wait4 returns when it has nothing to report: ECHILD without any
\* child, pid 0 with children that have nothing to report
Wait4Empty == IF Children = {} THEN "ECHILD" ELSE "pid0"
\* a faulty variant: ECHILD is taken for a failure that ends the goroutine
AfterEmptyWaitEchildFatal(r) == IF r = "ECHILD" THEN "stopped" ELSE "recv"
\* if pid == 0 || err == syscall.ECHILD { break }
AfterEmptyWait(r) == "recv"
\* pid, err := syscall.Wait4(-1, &status, flag, nil) and the branches on it
ReaperWait4 ==
    /\ rpc = "wait4"
    /\ IF Reportable = {}
       THEN /\ rpc' = AfterEmptyWait(Wait4Empty)
            /\ UNCHANGED <<rpid, rws, osReported, pst, wstatus, chg>>
       ELSE \E p \in Reportable :
              LET ws == WaitReport(p) IN
              /\ pst' = [pst EXCEPT ![p] = IF pst[p] = "zombie" THEN "reaped" ELSE @]
              /\ wstatus' = [wstatus EXCEPT ![p] = NoStatus]
              /\ chg' = [chg EXCEPT ![p] = "none"]
              /\ IF IsTermination(ws)
                 THEN rpc' = AfterReap /\ rpid' = p /\ rws' = ws /\ osReported' = ws
                 ELSE rpc' = AfterNonExit /\ osReported' = ws /\ UNCHANGED <<rpid, rws>>
    /\ UNCHANGED <<rsess, passPending, passN, passEnd>>
    /\ UNCHANGED <<psig, deathBy, sigchld, nextPid>>
    /\ UNCHANGED <<tetherVars, supVars, toolboxVars, haltVars, callVars, netVars>>

\* session, ok := t.removeChildPid(pid); not ok: an adopted zombie
ReaperRemove ==
    /\ rpc = "remove"
    /\ childPidTable' = removeChildPidTable(rpid)
    /\ IF removeChildPidFound(rpid)
       THEN /\ rsess' = childPidTable[rpid] /\ rpc' = "lock"
            /\ UNCHANGED <<rpid, rws, osReported, passPending>>
       ELSE /\ rsess' = NULL /\ rpc' = AfterAdopted
            /\ rpid' = 0 /\ rws' = NoStatus /\ osReported' = NoStatus
            /\ passPending' = passPending \ {rpid}
    /\ UNCHANGED <<passN, passEnd>>
    /\ UNCHANGED <<ExitStatus, mHolder, notify, incoming, incomingClosed, done, sendPanic>>
    /\ UNCHANGED <<kernelVars, supVars, toolboxVars, haltVars, callVars, netVars>>

\* session.m.Lock()
ReaperLock ==
    /\ rpc = "lock"
    /\ mHolder[rsess] = Free
    /\ mHolder' = [mHolder EXCEPT ![rsess] = Reaper]
    /\ rpc' = "set"
    /\ UNCHANGED <<rpid, rws, rsess, osReported, passPending, passN, passEnd>>
    /\ UNCHANGED <<childPidTable, ExitStatus, notify, incoming, incomingClosed, done, sendPanic>>
    /\ UNCHANGED <<kernelVars, supVars, toolboxVars, haltVars, callVars, netVars>>

\* The session whose fields the reaper's next step reads or writes: after
\* removeChildPid found it, log.Debugf formats the whole session (%#+v)
\* when debug logging is on; under the lock, ExitStatus is assigned.
ReaperTouches ==
    IF rpc = "remove" /\ removeChildPidFound(rpid) THEN childPidTable[rpid]
    ELSE IF rpc = "set" THEN rsess
    ELSE NULL

\* a faulty variant: the raw wait status word is stored
RecordedStatusRaw(ws) == IF Exited(ws) THEN ws.code * 256 ELSE 9
\* session.ExitStatus = status.ExitStatus(); session.m.Unlock()
RecordedStatus(ws) == ExitStatusOf(ws)
ReaperSetStatus ==
    /\ rpc = "set"
    /\ ExitStatus' = [ExitStatus EXCEPT ![rsess] = RecordedStatus(rws)]
    /\ mHolder' = [mHolder EXCEPT ![rsess] = Free]
    /\ rpc' = "callback"
    /\ UNCHANGED <<rpid, rws, rsess, osReported, passPending, passN, passEnd>>
    /\ UNCHANGED <<childPidTable, notify, incoming, incomingClosed, done, sendPanic>>
    /\ UNCHANGED <<kernelVars, supVars, toolboxVars, haltVars, callVars, netVars>>

\* handleSessionExit(session): the exit-completion callback.  It may fault
\* (the reaper recovers); otherwise the exit of a session with a restart
\* policy asks for its relaunch, and the exit of the last session without
\* one (every declared session without a restart policy has exited) asks
\* the supervisor to stop.
IsRunning(s) == \E p \in Pids : childPidTable[p] = s
Required(c) == {s \in c.Sessions : ~RestartOf(s)}
AllRequiredExited ==
    /\ Required(config) # {}
    /\ \A s \in Required(config) : cmdPid[s] # 0 /\ ~IsRunning(s)
\* a faulty variant: any session's exit stops the supervisor
StopOnAnyExit(s) == TRUE
StopOnExit(s) == ~RestartOf(s) /\ AllRequiredExited
\* a faulty variant: the fault is not recovered and ends the goroutine
AfterPanicDies == "stopped"
\* recover() in the deferred function of the per-notification function:
\* the function returns and the range over t.incoming goes on
AfterPanic == "recv"
ReaperCallback(panics) ==
    /\ rpc = "callback"
    /\ passPending' = passPending \ {rpid}
    /\ rpid' = 0 /\ rws' = NoStatus /\ rsess' = NULL /\ osReported' = NoStatus
    /\ IF panics
       THEN rpc' = AfterPanic /\ passEnd' = "panic" /\ UNCHANGED <<stopReq, relaunch>>
       ELSE /\ rpc' = AfterCallback
            /\ stopReq' = (stopReq \/ StopOnExit(rsess))
            /\ relaunch' = (relaunch \/ RestartOf(rsess))
            /\ UNCHANGED passEnd
    /\ UNCHANGED passN
    /\ UNCHANGED <<sup, cpc, shpc, config, nSnap, cmdPid, extStopped>>
    /\ UNCHANGED <<extReloaded, extStarted, stopErrs, explicitStop>>
    /\ UNCHANGED <<kernelVars, tetherVars, toolboxVars, haltVars, callVars, netVars>>

\* --------------------------------------------------------- stopReaper
\* a faulty variant: the channel is closed while the notifier is in force
StopReaperOrderCloseFirst == <<"closeIncoming", "closeDone", "reset">>
\* The three steps of stopReaper, in the order of its statements:
\* signal.Reset(SIGCHLD), close(t.done), close(t.incoming).
StopReaperOrder == <<"reset", "closeDone", "closeIncoming">>
StepLabel == <<"stopReaper1", "stopReaper2", "stopReaper3">>
PosOf(op) == CHOOSE i \in 1..Len(StopReaperOrder) : StopReaperOrder[i] = op
\* the position after step op; past the last one stopReaper has returned
AfterStep(op) ==
    IF PosOf(op) = Len(StopReaperOrder) THEN "finished" ELSE StepLabel[PosOf(op) + 1]
SupAfter(op) == IF AfterStep(op) = "finished" THEN "Stopped" ELSE sup

\* a faulty variant: the reset leaves the SIGCHLD notification in force
AfterResetStillNotified == TRUE
\* signal.Reset(syscall.SIGCHLD) undoes signal.Notify for SIGCHLD: once it
\* has returned the runtime sends no SIGCHLD to t.incoming
AfterReset == FALSE
StopReaperReset ==
    /\ shpc = StepLabel[PosOf("reset")]
    /\ notify' = AfterReset
    /\ shpc' = AfterStep("reset")
    /\ sup' = SupAfter("reset")
    /\ UNCHANGED <<childPidTable, ExitStatus, mHolder, incoming, incomingClosed, done, sendPanic>>
    /\ UNCHANGED <<cpc, config, nSnap, stopReq, cmdPid, extStopped>>
    /\ UNCHANGED lifeVars
    /\ UNCHANGED <<kernelVars, reaperVars, toolboxVars, haltVars, callVars, netVars>>

StopReaperCloseDone ==
    /\ shpc = StepLabel[PosOf("closeDone")]
    /\ done' = TRUE
    /\ shpc' = AfterStep("closeDone")
    /\ sup' = SupAfter("closeDone")
    /\ UNCHANGED <<childPidTable, ExitStatus, mHolder, notify, incoming, incomingClosed, sendPanic>>
    /\ UNCHANGED <<cpc, config, nSnap, stopReq, cmdPid, extStopped>>
    /\ UNCHANGED lifeVars
    /\ UNCHANGED <<kernelVars, reaperVars, toolboxVars, haltVars, callVars, netVars>>

StopReaperCloseIncoming ==
    /\ shpc = StepLabel[PosOf("closeIncoming")]
    /\ incomingClosed' = TRUE
    /\ shpc' = AfterStep("closeIncoming")
    /\ sup' = SupAfter("closeIncoming")
    /\ UNCHANGED <<childPidTable, ExitStatus, mHolder, notify, incoming, done, sendPanic>>
    /\ UNCHANGED <<cpc, config, nSnap, stopReq, cmdPid, extStopped>>
    /\ UNCHANGED lifeVars
    /\ UNCHANGED <<kernelVars, reaperVars, toolboxVars, haltVars, callVars, netVars>>

\* ------------------------------------------------------------ toolbox
\* a faulty variant: the snapshot and its map are not tested for nil
ToolboxReloadNoNilCheck(cfg, cur) == IF cfg.ID \in cfg.Sessions THEN cfg.ID ELSE NULL
\* the value Reload returns: its one return statement is return nil
ToolboxReloadResult(cfg) == "nil"
\* Toolbox.Reload(config): rebinds only when config and its session map are
\* non-nil; a key absent from the map yields nil.
ToolboxReload(cfg, cur) ==
    IF ~cfg.nil /\ cfg.hasMap
    THEN (IF cfg.ID \in cfg.Sessions THEN cfg.ID ELSE NULL)
    ELSE cur

\* --------------------------------------------------------- supervisor
\* a faulty variant: sessions are examined before the extensions are reloaded
AfterSnapshotNoReload == "launch"
\* Configuring: after the snapshot is taken the extensions are reloaded
AfterSnapshot == "reload"
\* Configuring: a snapshot arrives and replaces the configuration.
SupSnapshot(c) ==
    /\ cpc = "snapshot"
    /\ nSnap < MaxSnapshots
    /\ config' = c
    /\ nSnap' = nSnap + 1
    /\ cpc' = AfterSnapshot
    /\ extReloaded' = {}
    /\ extStarted' = {}
    /\ UNCHANGED <<sup, shpc, stopReq, cmdPid, extStopped>>
    /\ UNCHANGED <<stopErrs, relaunch, explicitStop>>
    /\ UNCHANGED <<kernelVars, tetherVars, reaperVars, toolboxVars, haltVars, callVars, netVars>>

\* Configuring: Reload of the extensions with the snapshot, one call after
\* the other in registration order; after the last the sessions are examined.
NextToReload ==
    CHOOSE i \in AllExtensions :
        /\ i \notin extReloaded
        /\ \A j \in AllExtensions : j < i => j \in extReloaded
SupReload ==
    /\ cpc = "reload"
    /\ extReloaded' = extReloaded \cup {NextToReload}
    /\ tsession' = IF Extensions[NextToReload] = "Toolbox"
                   THEN ToolboxReload(config, tsession) ELSE tsession
    /\ cpc' = IF extReloaded \cup {NextToReload} = AllExtensions THEN "launch" ELSE "reload"
    /\ UNCHANGED <<tstopGen, tstopClosed>>
    /\ UNCHANGED <<sup, shpc, config, nSnap, stopReq, cmdPid, extStopped>>
    /\ UNCHANGED <<extStarted, stopErrs, relaunch, explicitStop>>
    /\ UNCHANGED <<kernelVars, tetherVars, reaperVars, haltVars, callVars, netVars>>

\* Configuring: launch of a declared session that is not running (one
\* that has exited is launched again only under a restart policy); the new
\* process is registered in the session table under its pid.
SupLaunch(s) ==
    /\ cpc = "launch"
    /\ s \in config.Sessions
    /\ ~IsRunning(s)
    /\ cmdPid[s] = 0 \/ RestartOf(s)
    /\ nextPid <= MaxPid
    /\ pst' = [pst EXCEPT ![nextPid] = "running"]
    /\ nextPid' = nextPid + 1
    /\ childPidTable' = [childPidTable EXCEPT ![nextPid] = s]
    /\ cmdPid' = [cmdPid EXCEPT ![s] = nextPid]
    /\ UNCHANGED <<wstatus, chg, psig, deathBy, sigchld>>
    /\ UNCHANGED <<ExitStatus, mHolder, notify, incoming, incomingClosed, done, sendPanic>>
    /\ UNCHANGED <<sup, cpc, shpc, config, nSnap, stopReq, extStopped>>
    /\ UNCHANGED lifeVars
    /\ UNCHANGED <<reaperVars, toolboxVars, haltVars, callVars, netVars>>

\* Configuring: Start of the extensions after the launch phase, one call
\* after the other in registration order; after the last the supervisor is
\* Running.  Toolbox.Start makes a fresh t.stop channel.
NextToStart ==
    CHOOSE i \in AllExtensions :
        /\ i \notin extStarted
        /\ \A j \in AllExtensions : j < i => j \in extStarted
SupStart ==
    /\ cpc \in {"launch", "start"}
    /\ extStarted # AllExtensions
    /\ extStarted' = extStarted \cup {NextToStart}
    /\ IF Extensions[NextToStart] = "Toolbox"
       THEN tstopGen' = tstopGen + 1 /\ tstopClosed' = FALSE
       ELSE UNCHANGED <<tstopGen, tstopClosed>>
    /\ IF extStarted \cup {NextToStart} = AllExtensions
       THEN cpc' = "idle" /\ sup' = "Running"
       ELSE cpc' = "start" /\ UNCHANGED sup
    /\ UNCHANGED tsession
    /\ UNCHANGED <<shpc, config, nSnap, stopReq, cmdPid, extStopped>>
    /\ UNCHANGED <<extReloaded, stopErrs, relaunch, explicitStop>>
    /\ UNCHANGED <<kernelVars, tetherVars, reaperVars, haltVars, callVars, netVars>>

\* a faulty variant: a pass is entered whatever state the supervisor is in
AcceptsPassAlways == cpc = "idle"
\* a new pass is entered from Running, outside a pass and outside shutdown
AcceptsPass == sup = "Running" /\ cpc = "idle" /\ shpc = "idle"
\* Running: a new snapshot re-enters Configuring.
SupNewSnapshot ==
    /\ AcceptsPass
    /\ nSnap < MaxSnapshots
    /\ cpc' = "snapshot"
    /\ UNCHANGED <<sup, shpc, config, nSnap, stopReq, cmdPid, extStopped>>
    /\ UNCHANGED lifeVars
    /\ UNCHANGED <<kernelVars, tetherVars, reaperVars, toolboxVars, haltVars, callVars, netVars>>

\* Running: the exit of a session with a restart policy re-enters
\* Configuring at the launch phase.
SupRelaunch ==
    /\ AcceptsPass
    /\ relaunch
    /\ ~stopReq
    /\ relaunch' = FALSE
    /\ extStarted' = {}
    /\ cpc' = "launch"
    /\ UNCHANGED <<sup, shpc, config, nSnap, stopReq, cmdPid, extStopped>>
    /\ UNCHANGED <<extReloaded, stopErrs, explicitStop>>
    /\ UNCHANGED <<kernelVars, tetherVars, reaperVars, toolboxVars, haltVars, callVars, netVars>>

\* An explicit stop request from outside.
RequestStop ==
    /\ sup = "Running"
    /\ ~stopReq
    /\ stopReq' = TRUE
    /\ explicitStop' = TRUE
    /\ UNCHANGED <<sup, cpc, shpc, config, nSnap, cmdPid, extStopped>>
    /\ UNCHANGED <<extReloaded, extStarted, stopErrs, relaunch>>
    /\ UNCHANGED <<kernelVars, tetherVars, reaperVars, toolboxVars, haltVars, callVars, netVars>>

\* a faulty variant: the reaper is shut down with the extensions running
ShutdownFirstReaper == "stopReaper1"
\* ShuttingDown begins: extension Stop first, the reaper's shutdown after.
ShutdownFirst == "extstop"
AfterExtStop == StepLabel[1]
\* a faulty variant: shutdown begins in the middle of a configuration pass
ShutdownMayBeginAnytime == TRUE
\* shutdown begins between passes: the pass in progress is completed first
ShutdownMayBegin == cpc = "idle"
SupBeginShutdown ==
    /\ sup = "Running" /\ shpc = "idle"
    /\ ShutdownMayBegin
    /\ stopReq
    /\ sup' = "ShuttingDown"
    /\ shpc' = ShutdownFirst
    /\ UNCHANGED <<cpc, config, nSnap, stopReq, cmdPid, extStopped>>
    /\ UNCHANGED lifeVars
    /\ UNCHANGED <<kernelVars, tetherVars, reaperVars, toolboxVars, haltVars, callVars, netVars>>

\* Toolbox.Stop(): Service.Stop, Service.Wait, close(t.stop); it returns nil
ToolboxStopClosed == TRUE
StopMayFail(i) == Extensions[i] # "Toolbox"
\* a faulty variant: the first error ends the Stop calls
AfterStopErrorAbort == StepLabel[1]
\* the error of a Stop is collected and the Stop calls go on
AfterStopError == "extstop"
\* ShuttingDown: Stop of the extensions, in reverse registration order.
NextToStop ==
    CHOOSE i \in 1..Len(Extensions) :
        /\ i \notin extStopped
        /\ \A j \in 1..Len(Extensions) : j > i => j \in extStopped
SupExtStop(fails) ==
    /\ shpc = "extstop"
    /\ IF extStopped = 1..Len(Extensions)
       THEN /\ ~fails
            /\ shpc' = AfterExtStop
            /\ UNCHANGED <<extStopped, tstopClosed, stopErrs>>
       ELSE /\ fails => StopMayFail(NextToStop)
            /\ extStopped' = extStopped \cup {NextToStop}
            /\ stopErrs' = IF fails THEN stopErrs \cup {NextToStop} ELSE stopErrs
            /\ tstopClosed' = IF Extensions[NextToStop] = "Toolbox"
                              THEN ToolboxStopClosed ELSE tstopClosed
            /\ shpc' = IF fails THEN AfterStopError ELSE "extstop"
    /\ UNCHANGED <<tsession, tstopGen>>
    /\ UNCHANGED <<sup, cpc, config, nSnap, stopReq, cmdPid>>
    /\ UNCHANGED <<extReloaded, extStarted, relaunch, explicitStop>>
    /\ UNCHANGED <<kernelVars, tetherVars, reaperVars, haltVars, callVars, netVars>>

\* killHelper(session, name): "" means TERM; an unknown name fails to
\* parse; the signal goes to session.Cmd.Process (a nil Process faults).
SignalNames == {"TERM", "KILL"}
SigOfName(name) == IF name = "" THEN "TERM" ELSE name
killHelperResult(s, name) ==
    IF SigOfName(name) \notin SignalNames THEN "errParse"
    ELSE IF cmdPid[s] = 0 THEN "fault"
    ELSE IF SignalOk(cmdPid[s]) THEN "nil"
    ELSE "errSignal"
killHelperEffect(s, name, by) ==
    IF killHelperResult(s, name) = "nil"
    THEN SignalEffect(cmdPid[s], SigOfName(name), by)
    ELSE psig

\* the toolbox service dispatches requests between its Start and its Stop
ServiceRunning == tstopGen > 0 /\ \A i \in extStopped : Extensions[i] # "Toolbox"

\* a faulty variant: a halt without a bound session reports success
HaltUnboundNoError == "nil"
\* if session == nil { return fmt.Errorf("failed to halt container: not
\* initialized yet") }
HaltUnbound == "errNotInit"
\* halt(): session := t.session(); nil: "not initialized yet"
HaltBegin(h) ==
    /\ ServiceRunning
    /\ hpc[h] = "idle"
    \* requests are numbered as they arrive; a later one arrives while the
    \* earlier ones are in progress
    /\ \A g \in Halts : g < h => hpc[g] \notin {"idle", "done"}
    /\ IF tsession = NULL
       THEN /\ hpc' = [hpc EXCEPT ![h] = "done"]
            /\ hres' = [hres EXCEPT ![h] = HaltUnbound]
            /\ UNCHANGED hsess
       ELSE /\ hpc' = [hpc EXCEPT ![h] = "lock"]
            /\ hsess' = [hsess EXCEPT ![h] = tsession]
            /\ UNCHANGED hres
    /\ UNCHANGED <<hchan, hforced, hvia, hresp>>
    /\ UNCHANGED <<kernelVars, tetherVars, reaperVars, supVars, toolboxVars, callVars, netVars>>

\* session.m.Lock(); defer session.m.Unlock()
HaltLock(h) ==
    /\ hpc[h] = "lock"
    /\ mHolder[hsess[h]] = Free
    /\ mHolder' = [mHolder EXCEPT ![hsess[h]] = h]
    /\ hpc' = [hpc EXCEPT ![h] = "signal"]
    /\ UNCHANGED <<hsess, hchan, hres, hforced, hvia, hresp>>
    /\ UNCHANGED <<childPidTable, ExitStatus, notify, incoming, incomingClosed, done, sendPanic>>
    /\ UNCHANGED <<kernelVars, reaperVars, supVars, toolboxVars, callVars, netVars>>

\* a faulty variant: the lock is given up before the select
HolderInSelectNoOne(h) == Free
\* defer session.m.Unlock(): the lock taken before killHelper is held
\* through the select, until halt returns
HolderInSelect(h) == h
\* if err := t.killHelper(session, session.StopSignal); err != nil { return err }
\* and the entry into the select, which reads t.stop
HaltSignal(h) ==
    /\ hpc[h] = "signal"
    /\ LET r == killHelperResult(hsess[h], StopSignalOf(hsess[h])) IN
       /\ psig' = killHelperEffect(hsess[h], StopSignalOf(hsess[h]), h)
       /\ IF r = "nil"
          THEN /\ hpc' = [hpc EXCEPT ![h] = "select"]
               /\ hchan' = [hchan EXCEPT ![h] = tstopGen]
               /\ mHolder' = [mHolder EXCEPT ![hsess[h]] = HolderInSelect(h)]
               /\ UNCHANGED hres
          ELSE /\ hpc' = [hpc EXCEPT ![h] = "done"]
               /\ hres' = [hres EXCEPT ![h] = r]
               /\ mHolder' = [mHolder EXCEPT ![hsess[h]] = Free]
               /\ UNCHANGED hchan
    /\ UNCHANGED <<hsess, hforced, hvia, hresp>>
    /\ UNCHANGED <<pst, wstatus, chg, deathBy, sigchld, nextPid>>
    /\ UNCHANGED <<childPidTable, ExitStatus, notify, incoming, incomingClosed, done, sendPanic>>
    /\ UNCHANGED <<reaperVars, supVars, toolboxVars, callVars, netVars>>

\* The session whose fields request h's next step reads: killHelper reads
\* its ID, StopSignal and Cmd.Process, the forced kill its Cmd.Process.
HaltTouches(h) == IF hpc[h] \in {"signal", "forced"} THEN hsess[h] ELSE NULL

\* case <-t.stop is ready: the channel read at the select has been closed
StopObserved(h) == hchan[h] = tstopGen /\ tstopClosed
\* what the session's process has done about request h's stop signal
Response(h, s) ==
    IF pst[cmdPid[s]] = "running" THEN "running"
    ELSE IF deathBy[cmdPid[s]] = h THEN "responded"
    ELSE "other"

\* a faulty variant: the stop case does not return and runs into the kill
AfterStopCaseFallsThrough == "forced"
\* case <-t.stop: log; return nil
AfterStopCase == "done"
\* case <-t.stop: return nil
HaltStopped(h) ==
    /\ hpc[h] = "select"
    /\ StopObserved(h)
    /\ hpc' = [hpc EXCEPT ![h] = AfterStopCase]
    /\ hres' = [hres EXCEPT ![h] = "nil"]
    /\ hvia' = [hvia EXCEPT ![h] = "stop"]
    /\ hresp' = [hresp EXCEPT ![h] = Response(h, hsess[h])]
    /\ mHolder' = [mHolder EXCEPT ![hsess[h]] = Free]
    /\ UNCHANGED <<hsess, hchan, hforced>>
    /\ UNCHANGED <<childPidTable, ExitStatus, notify, incoming, incomingClosed, done, sendPanic>>
    /\ UNCHANGED <<kernelVars, reaperVars, supVars, toolboxVars, callVars, netVars>>

\* Some goroutine of the supervisor can take a step.  The ten seconds of
\* the grace period are long against any such step: the timer fires only
\* when none can.  What the environment does (a child exiting, taking a
\* signal, a request from outside) is not bounded by it.
ReaperCanStep ==
    \/ rpc \in {"check", "wait4", "remove", "set", "callback"}
    \/ rpc = "recv" /\ (incoming > 0 \/ incomingClosed)
    \/ rpc = "lock" /\ mHolder[rsess] = Free
SupCanStep ==
    \/ cpc # "idle"
    \/ shpc \notin {"idle", "finished"}
    \/ sup = "Running" /\ stopReq
    \/ sup = "Running" /\ relaunch
HaltCanStep(h) ==
    \/ hpc[h] \in {"signal", "forced"}
    \/ hpc[h] = "lock" /\ mHolder[hsess[h]] = Free
    \/ hpc[h] = "select" /\ StopObserved(h)
Busy == ReaperCanStep \/ SupCanStep \/ sigchld \/ \E h \in Halts : HaltCanStep(h)

\* case <-time.After(time.Second * 10):
HaltTimeout(h) ==
    /\ hpc[h] = "select"
    /\ ~Busy
    /\ hpc' = [hpc EXCEPT ![h] = "forced"]
    /\ hvia' = [hvia EXCEPT ![h] = "timer"]
    /\ hresp' = [hresp EXCEPT ![h] = Response(h, hsess[h])]
    /\ UNCHANGED <<hsess, hchan, hres, hforced>>
    /\ UNCHANGED <<kernelVars, tetherVars, reaperVars, supVars, toolboxVars, callVars, netVars>>

\* return session.Cmd.Process.Kill()
ProcessKillResult(s) == IF SignalOk(cmdPid[s]) THEN "nil" ELSE "errKill"
HaltKill(h) ==
    /\ hpc[h] = "forced"
    /\ hforced' = [hforced EXCEPT ![h] = TRUE]
    /\ hres' = [hres EXCEPT ![h] = ProcessKillResult(hsess[h])]
    /\ psig' = IF SignalOk(cmdPid[hsess[h]])
               THEN SignalEffect(cmdPid[hsess[h]], "KILL", h) ELSE psig
    /\ hpc' = [hpc EXCEPT ![h] = "done"]
    /\ mHolder' = [mHolder EXCEPT ![hsess[h]] = Free]
    /\ UNCHANGED <<hsess, hchan, hvia, hresp>>
    /\ UNCHANGED <<pst, wstatus, chg, deathBy, sigchld, nextPid>>
    /\ UNCHANGED <<childPidTable, ExitStatus, notify, incoming, incomingClosed, done, sendPanic>>
    /\ UNCHANGED <<reaperVars, supVars, toolboxVars, callVars, netVars>>

\* faulty variants: the name is not compared; the nil session is not caught
AuthResultAnyName(wellFormed, name, sess) ==
    IF ~wellFormed THEN "errUnmarshal"
    ELSE IF sess = NULL THEN "errNotInit"
    ELSE "nil"
AuthResultNoNilCheck(wellFormed, name, sess) ==
    IF ~wellFormed THEN "errUnmarshal"
    ELSE IF name # sess THEN "errMismatch"
    ELSE "nil"
\* containerAuthenticate: the credential is decoded, the bound session is
\* read, and under the session's lock the name is compared with its ID
\* (a session's ID is the key it is declared under).
AuthResult(wellFormed, name, sess) ==
    IF ~wellFormed THEN "errUnmarshal"
    ELSE IF sess = NULL THEN "errNotInit"
    ELSE IF name # sess THEN "errMismatch"
    ELSE "nil"
NoAuth == [called |-> FALSE, wf |-> FALSE, name |-> "other", sess |-> NULL, res |-> "none"]
ToolboxAuthenticate(wellFormed, name) ==
    /\ ServiceRunning
    /\ (wellFormed /\ tsession # NULL) => mHolder[tsession] = Free
    /\ authRes' = [called |-> TRUE, wf |-> wellFormed, name |-> name, sess |-> tsession,
                   res |-> AuthResult(wellFormed, name, tsession)]
    /\ UNCHANGED <<startVars, cmdRes, backend, upVars>>
    /\ UNCHANGED <<kernelVars, tetherVars, reaperVars, supVars, toolboxVars, haltVars, netVars>>

\* ---------------------------------------------- containerStartCommand
\* the program-path tokens and argument strings of the requests
ProgramPaths == {"kill", "ps"}
SignalArgs == {"", "TERM", "KILL", "BOGUS"}
\* sender of the signals of start-program requests
KillCall == 3
\* a faulty variant: every token is taken for a kill request
KnownProgramAny(path) == TRUE
\* switch r.ProgramPath { case "kill": ...; default: unknown command }
KnownProgram(path) == path = "kill"
\* kill(name): the bound session is read (nil: "process not found"), and
\* under the session's lock killHelper sends the signal
StartCommandResult(path, args, sess) ==
    IF ~KnownProgram(path) THEN "errUnknown"
    ELSE IF sess = NULL THEN "errNotFound"
    ELSE killHelperResult(sess, args)
NoCmd == [seq |-> FALSE, path |-> "ps", args |-> "", sess |-> NULL, res |-> "none", code |-> 0]
ContainerStartCommand(path, args) ==
    /\ ServiceRunning
    /\ (KnownProgram(path) /\ tsession # NULL) => mHolder[tsession] = Free
    /\ psig' = IF KnownProgram(path) /\ tsession # NULL
               THEN killHelperEffect(tsession, args, KillCall)
               ELSE psig
    /\ cmdRes' = [seq |-> ~cmdRes.seq, path |-> path, args |-> args, sess |-> tsession,
                  res |-> StartCommandResult(path, args, tsession), code |-> -1]
    /\ UNCHANGED <<authRes, startVars, upVars, backend>>
    /\ UNCHANGED <<pst, wstatus, chg, deathBy, sigchld, nextPid>>
    /\ UNCHANGED <<tetherVars, reaperVars, supVars, toolboxVars, haltVars, netVars>>

\* ------------------------------------------------------ Toolbox.Start
\* Toolbox.Start step by step, as the framework calls it in the Start phase
\* of a pass (SupStart takes the whole call as one step).
ToolboxIdx == CHOOSE i \in AllExtensions : Extensions[i] = "Toolbox"
\* the framework goes on after Start has returned: an error of Start is
\* logged, the next extension is started
StartReturned ==
    /\ extStarted' = extStarted \cup {ToolboxIdx}
    /\ IF extStarted \cup {ToolboxIdx} = AllExtensions
       THEN cpc' = "idle" /\ sup' = "Running"
       ELSE cpc' = "start" /\ UNCHANGED sup
\* a faulty variant: the select has no timer case
SelectReadyOnOnly(case) == case = "on" /\ onClosed
\* the select of Start: `on` is readable once it is closed, the timer
\* channel once the second has passed
SelectReady(case) == (case = "on" /\ onClosed) \/ case = "timer"
\* what follows t.Service.Start(): its error is returned at once
AfterServiceStart(err) == IF err THEN "idle" ELSE "select"
\* Start up to its select: a fresh t.stop and a fresh `on`, the handler
\* installed, the service started.
ToolboxStart(err) ==
    /\ cpc \in {"launch", "start"}
    /\ extStarted # AllExtensions
    /\ NextToStart = ToolboxIdx
    /\ startPc = "idle"
    /\ tstopGen' = tstopGen + 1 /\ tstopClosed' = FALSE
    /\ onClosed' = FALSE
    /\ serviceFailed' = err
    /\ startPc' = AfterServiceStart(err)
    /\ startVia' = "none"
    /\ IF AfterServiceStart(err) = "idle"
       THEN startRes' = "error" /\ StartReturned
       ELSE startRes' = "none" /\ UNCHANGED <<extStarted, cpc, sup>>
    /\ UNCHANGED <<authRes, cmdRes, backend, upVars, tsession>>
    /\ UNCHANGED <<shpc, config, nSnap, stopReq, cmdPid, extStopped>>
    /\ UNCHANGED <<extReloaded, stopErrs, relaunch, explicitStop>>
    /\ UNCHANGED <<kernelVars, tetherVars, reaperVars, haltVars, netVars>>

\* The vmx sends OS_PowerOn to the started service: the handler closes `on`.
\* (The message comes once for a Start call.)
PowerOn ==
    /\ startPc = "select" \/ startRes = "nil"
    /\ ~onClosed
    /\ onClosed' = TRUE
    /\ UNCHANGED <<authRes, cmdRes, backend, upVars, startPc, serviceFailed, startRes, startVia>>
    /\ UNCHANGED <<kernelVars, tetherVars, reaperVars, supVars, toolboxVars, haltVars, netVars>>

\* The select takes a ready case and Start returns nil.
ToolboxStartSelect(case) ==
    /\ startPc = "select"
    /\ SelectReady(case)
    /\ startPc' = "idle"
    /\ startRes' = "nil"
    /\ startVia' = case
    /\ StartReturned
    /\ UNCHANGED <<authRes, cmdRes, backend, upVars, onClosed, serviceFailed>>
    /\ UNCHANGED <<shpc, config, nSnap, stopReq, cmdPid, extStopped>>
    /\ UNCHANGED <<extReloaded, stopErrs, relaunch, explicitStop>>
    /\ UNCHANGED <<kernelVars, tetherVars, reaperVars, toolboxVars, haltVars, netVars>>

\* ------------------------------------------------- Dispatcher.Upgrade
\* vic-machine processes that upgrade the one appliance, each with its own
\* Dispatcher.  A snapshot of the appliance is [id, upgrade]: upgrade says
\* that its name starts with UpgradePrefix.
Dispatchers == {1, 2}
SnapshotIds == 1..MaxUpgrades
NoUpgrade ==
    [pc |-> "idle", call |-> 0, err |-> "nil", res |-> "none", snap |-> 0,
     upd |-> "none", rb |-> "none", saw |-> FALSE, acts |-> {}, task |-> "none"]
\* what fails before the snapshot: FolderName, Finder.Datastore, uploadImages
PreErrors == {"errFolder", "errDatastore", "errUpload"}
UpdateErrors == {"errPowerState", "errPowerOff", "errSwitchISO", "errReconfig", "errStart"}
RollbackErrors == {"errRevert", "errRbPowerState", "errRbStart"}
\* appliance.UpgradeInProgress(ctx, UpgradePrefix): a snapshot whose name
\* starts with the prefix exists
UpgradeInProgress == \E s \in appliance.snaps : s.upgrade
\* the name of the snapshot Upgrade creates starts with UpgradePrefix
SnapshotIsUpgrade == TRUE
Did(d, a) == [upg[d] EXCEPT !.acts = @ \cup {a}]

\* Upgrade up to createSnapshot: folder name, image datastore, upload of
\* the images; each failure is returned at once.
UpgradeBegin(d, pre) ==
    /\ upg[d].pc \in {"idle", "done"}
    /\ upCalls < MaxUpgrades
    /\ upCalls' = upCalls + 1
    /\ IF pre \in PreErrors
       THEN /\ upg' = [upg EXCEPT ![d] = [NoUpgrade EXCEPT !.pc = "done", !.call = upCalls + 1, !.err = pre, !.res = pre]]
            /\ UNCHANGED images
       ELSE /\ upg' = [upg EXCEPT ![d] = [NoUpgrade EXCEPT !.pc = "check", !.call = upCalls + 1]]
            /\ images' = TRUE
    /\ UNCHANGED appliance
    /\ UNCHANGED <<authRes, startVars, cmdRes, backend>>
    /\ UNCHANGED <<kernelVars, tetherVars, reaperVars, supVars, toolboxVars, haltVars, netVars>>

\* tryCreateSnapshot, first half: UpgradeInProgress fails, or finds an
\* upgrade snapshot ("another upgrade process in progress"), or finds none.
\* On an error createSnapshot returns it, Upgrade deletes the upgrade
\* images and returns it.
UpgradeCheck(d, ok) ==
    /\ upg[d].pc = "check"
    /\ IF ~ok
       THEN /\ upg' = [upg EXCEPT ![d] = [@ EXCEPT !.pc = "done", !.err = "errCheck", !.res = "errCheck"]]
            /\ images' = FALSE
       ELSE IF UpgradeInProgress
       THEN /\ upg' = [upg EXCEPT ![d] = [@ EXCEPT !.pc = "done", !.saw = TRUE,
                                          !.err = "errInProgress", !.res = "errInProgress"]]
            /\ images' = FALSE
       ELSE /\ upg' = [upg EXCEPT ![d] = [@ EXCEPT !.pc = "create"]]
            /\ UNCHANGED images
    /\ UNCHANGED <<appliance, upCalls>>
    /\ UNCHANGED <<authRes, startVars, cmdRes, backend>>
    /\ UNCHANGED <<kernelVars, tetherVars, reaperVars, supVars, toolboxVars, haltVars, netVars>>

\* tryCreateSnapshot, second half: the CreateSnapshot task
UpgradeCreateSnapshot(d, ok) ==
    /\ upg[d].pc = "create"
    /\ IF ok
       THEN /\ appliance' = [appliance EXCEPT !.snaps = @ \cup {[id |-> upg[d].call, upgrade |-> SnapshotIsUpgrade]}]
            /\ upg' = [upg EXCEPT ![d] = [Did(d, "snapshot") EXCEPT !.pc = "power", !.snap = upg[d].call]]
            /\ UNCHANGED images
       ELSE /\ upg' = [upg EXCEPT ![d] = [@ EXCEPT !.pc = "done", !.err = "errCreate", !.res = "errCreate"]]
            /\ images' = FALSE
            /\ UNCHANGED appliance
    /\ UNCHANGED upCalls
    /\ UNCHANGED <<authRes, startVars, cmdRes, backend>>
    /\ UNCHANGED <<kernelVars, tetherVars, reaperVars, supVars, toolboxVars, haltVars, netVars>>

\* update failed with e: Upgrade goes on to the rollback
UpdateFailed(u, e) == [u EXCEPT !.pc = "rollback", !.err = e, !.upd = e]

\* update, first part: the power state is read and the appliance powered
\* off unless it is off
UpdatePower(d, r) ==
    /\ upg[d].pc = "power"
    /\ r \in {"ok", "errPowerState", "errPowerOff"}
    /\ r = "errPowerOff" => appliance.power # "off"
    /\ IF r = "ok"
       THEN /\ appliance' = [appliance EXCEPT !.power = "off"]
            /\ upg' = [upg EXCEPT ![d] = [(IF appliance.power # "off" THEN Did(d, "poweroff") ELSE @)
                                           EXCEPT !.pc = "reconfig"]]
       ELSE /\ upg' = [upg EXCEPT ![d] = UpdateFailed(@, r)]
            /\ UNCHANGED appliance
    /\ UNCHANGED <<images, upCalls>>
    /\ UNCHANGED <<authRes, startVars, cmdRes, backend>>
    /\ UNCHANGED <<kernelVars, tetherVars, reaperVars, supVars, toolboxVars, haltVars, netVars>>

\* reconfigVCH: what it returns for the outcome of switchISO and of the
\* Reconfigure task.  For a task that ended in another state than success
\* without an error it returns err, which is nil there.
ReconfigOutcomes == {"ok", "errSwitchISO", "errReconfig", "notSuccess"}
reconfigVCH(r) == IF r \in {"errSwitchISO", "errReconfig"} THEN r ELSE "nil"
\* update, second part: reconfigVCH with the new appliance ISO
UpdateReconfig(d, r) ==
    /\ upg[d].pc = "reconfig"
    /\ IF reconfigVCH(r) = "nil"
       THEN /\ appliance' = [appliance EXCEPT !.iso = IF r = "ok" THEN "new" ELSE @]
            /\ upg' = [upg EXCEPT ![d] = [Did(d, "reconfig") EXCEPT !.pc = "start", !.task = r]]
       ELSE /\ upg' = [upg EXCEPT ![d] =
                        UpdateFailed(IF r = "errReconfig" THEN [Did(d, "reconfig") EXCEPT !.task = r] ELSE @,
                                     reconfigVCH(r))]
            /\ UNCHANGED appliance
    /\ UNCHANGED <<images, upCalls>>
    /\ UNCHANGED <<authRes, startVars, cmdRes, backend>>
    /\ UNCHANGED <<kernelVars, tetherVars, reaperVars, supVars, toolboxVars, haltVars, netVars>>

\* update, last part: startAppliance; its result is update's.  update
\* returned nil: Upgrade returns nil and its deferred function deletes the
\* snapshot.
UpdateStart(d, ok, on) ==
    /\ upg[d].pc = "start"
    /\ ok => on
    /\ appliance' = [appliance EXCEPT !.power = IF on THEN "on" ELSE @]
    /\ IF ok
       THEN upg' = [upg EXCEPT ![d] = [Did(d, "start") EXCEPT !.pc = "delete", !.err = "nil", !.upd = "nil"]]
       ELSE upg' = [upg EXCEPT ![d] = UpdateFailed(Did(d, "start"), "errStart")]
    /\ UNCHANGED <<images, upCalls>>
    /\ UNCHANGED <<authRes, startVars, cmdRes, backend>>
    /\ UNCHANGED <<kernelVars, tetherVars, reaperVars, supVars, toolboxVars, haltVars, netVars>>

\* the deferred function of Upgrade, err == nil: deleteSnapshot, whose
\* error is logged only
UpgradeDeleteSnapshot(d, ok) ==
    /\ upg[d].pc = "delete"
    /\ appliance' = [appliance EXCEPT !.snaps = IF ok THEN {s \in @ : s.id # upg[d].snap} ELSE @]
    /\ upg' = [upg EXCEPT ![d] = [Did(d, "delete") EXCEPT !.pc = "done", !.res = upg[d].err]]
    /\ UNCHANGED <<images, upCalls>>
    /\ UNCHANGED <<authRes, startVars, cmdRes, backend>>
    /\ UNCHANGED <<kernelVars, tetherVars, reaperVars, supVars, toolboxVars, haltVars, netVars>>

\* a faulty variant: the deferred function deletes the snapshot whatever
\* Upgrade returns
DeferredOnErrorDeletes == "delete"
\* the deferred function of Upgrade, err != nil: nothing is done
DeferredOnError == "done"
\* a faulty variant: the error of a failed rollback is returned
UpgradeReturnRollbackErr(updErr, rbErr) == IF rbErr # "nil" THEN rbErr ELSE updErr
\* what Upgrade returns after the rollback: the error of update, on both paths
UpgradeReturn(updErr, rbErr) == updErr
\* Upgrade returns after the rollback ended with rb: the images are deleted
\* if it succeeded
RolledBack(u, rb) ==
    [u EXCEPT !.pc = DeferredOnError, !.rb = rb, !.res = UpgradeReturn(u.err, rb)]

\* rollback: the RevertToSnapshot task (the appliance is not powered on by
\* it); the appliance is as the snapshot has it
UpgradeRollback(d, ok, on) ==
    /\ upg[d].pc = "rollback"
    /\ IF ok
       THEN /\ appliance' = [appliance EXCEPT !.iso = "old", !.power = IF on THEN "on" ELSE "off"]
            /\ upg' = [upg EXCEPT ![d] = [Did(d, "revert") EXCEPT !.pc = "ready"]]
       ELSE /\ upg' = [upg EXCEPT ![d] = RolledBack(Did(d, "revert"), "errRevert")]
            /\ UNCHANGED appliance
    /\ UNCHANGED <<images, upCalls>>
    /\ UNCHANGED <<authRes, startVars, cmdRes, backend>>
    /\ UNCHANGED <<kernelVars, tetherVars, reaperVars, supVars, toolboxVars, haltVars, netVars>>

\* ensureRollbackReady: the power state is read; an appliance that is off
\* is left off, another one is started
UpgradeRollbackReady(d, r) ==
    /\ upg[d].pc = "ready"
    /\ r \in {"nil", "errRbPowerState", "errRbStart"}
    /\ r = "errRbStart" => appliance.power # "off"
    /\ upg' = [upg EXCEPT ![d] = RolledBack(@, r)]
    /\ images' = IF r = "nil" THEN FALSE ELSE images
    /\ UNCHANGED <<appliance, upCalls>>
    /\ UNCHANGED <<authRes, startVars, cmdRes, backend>>
    /\ UNCHANGED <<kernelVars, tetherVars, reaperVars, supVars, toolboxVars, haltVars, netVars>>

\* ------------------------------------------------ engine backends
\* backends.Init and InsecureRegistries.  The package variables are the
\* fields pkg (which of them have been assigned), name (portLayerName) and
\* regs (insecureRegistries); the port layer's answers to pings, to
\* CreateImageStore and to the repository cache are inputs.
RegistryPaths == {"r1", "r2"}
RegistryLists == UNION {[1..n -> RegistryPaths] : n \in 0..MaxRegs}
BackendConfigs == {"nil", "noVersion", "version"}
NoBackend ==
    [pc |-> "idle", addr |-> "none", res |-> "none", pkg |-> {}, name |-> "", input |-> <<>>,
     ticks |-> 0, pings |-> 0, up |-> FALSE, store |-> FALSE, caches |-> FALSE,
     registry |-> FALSE, regs |-> <<>>,
     called |-> FALSE, at |-> <<>>, ret |-> <<>>, mine |-> <<>>]
\* portLayerName as Init composes it from the product and the version
PortLayerNameOf(cfg) ==
    IF cfg = "version" THEN "product version Backend Engine" ELSE "product Backend Engine"
\* the package variables Init assigns before it pings
PackageSet(cfg) ==
    {"vchConfig", "productName", "portLayerName", "portLayerClient", "portLayerServerAddr"}
        \cup (IF cfg = "version" THEN {"productVersion"} ELSE {})

\* Init up to pingPortLayer: net.SplitHostPort(portLayerAddr) fails and
\* Init returns the error, or the package variables are assigned and the
\* client is made
BackendInit(addrOk, cfg, insecureRegs) ==
    /\ backend.pc = "idle"
    /\ IF ~addrOk
       THEN backend' = [backend EXCEPT !.pc = "done", !.addr = "invalid", !.res = "errAddr"]
       ELSE backend' = [backend EXCEPT !.pc = "ping", !.addr = "valid", !.pkg = PackageSet(cfg),
                                       !.name = PortLayerNameOf(cfg), !.input = insecureRegs]
    /\ UNCHANGED <<authRes, startVars, cmdRes, upVars>>
    /\ UNCHANGED <<kernelVars, tetherVars, reaperVars, supVars, toolboxVars, haltVars, netVars>>

\* a faulty variant: one ping; Init goes on whatever it returned
AfterPingOnce(ok) == "store"
\* pingPortLayer: err == nil returns, any error waits for the next tick
AfterPing(ok) == IF ok THEN "store" ELSE "ping"
\* for range ticker.C { Ping }: the ticker fires every RetryTimeSeconds and
\* each tick received is followed by one ping
BackendPing(ok) ==
    /\ backend.pc = "ping"
    /\ ~ok => backend.pings < MaxPings
    /\ backend' = [backend EXCEPT !.ticks = @ + 1, !.pings = @ + 1,
                                   !.up = ok, !.pc = AfterPing(ok)]
    /\ UNCHANGED <<authRes, startVars, cmdRes, upVars>>
    /\ UNCHANGED <<kernelVars, tetherVars, reaperVars, supVars, toolboxVars, haltVars, netVars>>

\* createImageStore: the host UUID, then CreateImageStore; a conflict (the
\* store exists) is no error
StoreOutcomes == {"created", "conflict", "errUUID", "errCreate"}
createImageStore(r) == IF r \in {"created", "conflict"} THEN "nil" ELSE r
BackendCreateImageStore(r) ==
    /\ backend.pc = "store"
    /\ backend' = IF createImageStore(r) = "nil"
                  THEN [backend EXCEPT !.store = TRUE, !.pc = "caches"]
                  ELSE [backend EXCEPT !.store = TRUE, !.pc = "done", !.res = createImageStore(r)]
    /\ UNCHANGED <<authRes, startVars, cmdRes, upVars>>
    /\ UNCHANGED <<kernelVars, tetherVars, reaperVars, supVars, toolboxVars, haltVars, netVars>>

\* the two cache refreshes are started as goroutines, then
\* cache.NewRepositoryCache, whose error Init returns
BackendCaches(repoOk) ==
    /\ backend.pc = "caches"
    /\ backend' = IF repoOk
                  THEN [backend EXCEPT !.caches = TRUE, !.pc = "registry"]
                  ELSE [backend EXCEPT !.caches = TRUE, !.pc = "done", !.res = "errRepo"]
    /\ UNCHANGED <<authRes, startVars, cmdRes, upVars>>
    /\ UNCHANGED <<kernelVars, tetherVars, reaperVars, supVars, toolboxVars, haltVars, netVars>>

\* insecureRegistries = append(insecureRegistries, registry.Path) for each
\* of insecureRegs; registry.NewService; return nil
RecordRegistries(rs, insecureRegs) == rs \o insecureRegs
BackendRegistry ==
    /\ backend.pc = "registry"
    /\ backend' = [backend EXCEPT !.regs = RecordRegistries(@, backend.input),
                                   !.registry = TRUE, !.pc = "done", !.res = "nil"]
    /\ UNCHANGED <<authRes, startVars, cmdRes, upVars>>
    /\ UNCHANGED <<kernelVars, tetherVars, reaperVars, supVars, toolboxVars, haltVars, netVars>>

\* InsecureRegistries(): registries := make([]string, len(insecureRegistries))
\* is a slice of that many empty strings, and each recorded registry is
\* appended to it
InsecureRegistries(rs) == [i \in 1..Len(rs) |-> ""] \o rs
BackendInsecureRegistries ==
    /\ backend' = [backend EXCEPT !.called = TRUE, !.at = backend.regs,
                                   !.ret = InsecureRegistries(backend.regs),
                                   !.mine = InsecureRegistries(backend.regs)]
    /\ backend' # backend
    /\ UNCHANGED <<authRes, startVars, cmdRes, upVars>>
    /\ UNCHANGED <<kernelVars, tetherVars, reaperVars, supVars, toolboxVars, haltVars, netVars>>

\* the caller writes an element of the list it was returned: the list is a
\* slice of its own, made by make and append
CallerModifies(i) ==
    /\ backend.called
    /\ i \in 1..Len(backend.mine)
    /\ backend.mine[i] # "changed"
    /\ backend' = [backend EXCEPT !.mine[i] = "changed"]
    /\ UNCHANGED <<authRes, startVars, cmdRes, upVars>>
    /\ UNCHANGED <<kernelVars, tetherVars, reaperVars, supVars, toolboxVars, haltVars, netVars>>

\* ----------------------------------------------- network configurator
\* The interfaces of the VM, as AddInterface makes them: slot i holds an
\* interface under its kernel-assigned name, without addresses.
Slots == 1..MaxSlot
KernelNames == <<"eth1", "eth2", "eth3", "eth4">>
KernelName(i) == KernelNames[i]
AddInterface(i, up) == [Name |-> KernelName(i), Up |-> up, Addrs |-> <<>>]

\* The endpoints a configuration declares, keyed by network name: the slot
\* (ID; MaxSlot + 1 is a slot no interface has), the rename target (Name),
\* the static flag and the address (a static endpoint carries one, a
\* dynamic one none), and the default-route flag (at most one endpoint).
NetworkNames == {"bridge", "cnet", "external"}
NoRename == ""
IPs == {"127.0.0.1/8", "172.16.0.10/24"}
NoIP == ""
EndpointsOf(n) ==
    {e \in [ID : 1..(MaxSlot + 1), Name : {NoRename, n}, Static : BOOLEAN,
            IP : IPs \cup {NoIP}, Default : BOOLEAN] : e.Static <=> e.IP # NoIP}
NetworkConfigs ==
    {f \in [NetworkNames -> UNION {EndpointsOf(n) : n \in NetworkNames}] :
        /\ \A n \in NetworkNames : f[n] \in EndpointsOf(n)
        /\ \A n, m \in NetworkNames : (f[n].Default /\ f[m].Default) => n = m}
\* the configuration of TestSetIpAddress: bridge and cnet share the first
\* slot, external has the second
TestNetworks ==
    [n \in NetworkNames |->
        IF n = "bridge"
        THEN [ID |-> 1, Name |-> "bridge", Static |-> TRUE, IP |-> "127.0.0.1/8", Default |-> TRUE]
        ELSE IF n = "cnet"
        THEN [ID |-> 1, Name |-> NoRename, Static |-> TRUE, IP |-> "172.16.0.10/24", Default |-> FALSE]
        ELSE [ID |-> 2, Name |-> "external", Static |-> TRUE, IP |-> "127.0.0.1/8", Default |-> FALSE]]

\* a faulty variant: renamed whenever the name differs from the target
WantsRenameAgain(e, i) == e.Name # NoRename /\ Interfaces[i].Name # e.Name
\* the rename of an interface: requested, to another name than it has, and
\* the interface not renamed before (first writer wins)
WantsRename(e, i) ==
    /\ e.Name # NoRename
    /\ Interfaces[i].Name # e.Name
    /\ renames[i] = 0
HasAddr(addrs, ip) == \E k \in 1..Len(addrs) : addrs[k] = ip
\* a faulty variant: the address is added whether the interface has it or not
AddrAddAlways(addrs, ip) == Append(addrs, ip)
\* the assignment of an address: one the interface has is not added again
AddrAdd(addrs, ip) == IF HasAddr(addrs, ip) THEN addrs ELSE Append(addrs, ip)

\* a faulty variant: the route is installed whether it is there or not
RouteAddAlways(rs, n) == Append(rs, n)
\* the default route through the gateway of network n: one installed is not
\* installed again
RouteAdd(rs, n) == IF \E k \in 1..Len(rs) : rs[k] = n THEN rs ELSE Append(rs, n)

\* the configurator applied to one matched endpoint: rename, up, address
ApplyEndpoint(e, iface, i) ==
    [Name  |-> IF WantsRename(e, i) THEN e.Name ELSE iface.Name,
     Up    |-> TRUE,
     Addrs |-> IF e.Static THEN AddrAdd(iface.Addrs, e.IP) ELSE iface.Addrs]

\* a faulty variant: an unmatched endpoint ends the pass
AfterUnmatchedAbort(applied, n) == NetworkNames
\* the endpoints dealt with once an unmatched one has been reported: the
\* pass goes on with the others
AfterUnmatched(applied, n) == applied \cup {n}
\* One endpoint of the snapshot is applied; the endpoints of a pass are
\* taken in any order.  An endpoint whose slot has no interface is an error
\* of that endpoint alone.
NetApply(n) ==
    /\ nround < MaxApply
    /\ n \notin napplied
    /\ napplied' = IF Networks[n].ID \in Slots THEN napplied \cup {n}
                   ELSE AfterUnmatched(napplied, n)
    /\ LET e == Networks[n] IN
       IF e.ID \in Slots
       THEN /\ Interfaces' = [Interfaces EXCEPT ![e.ID] = ApplyEndpoint(e, Interfaces[e.ID], e.ID)]
            /\ renames' = [renames EXCEPT ![e.ID] = IF WantsRename(e, e.ID) THEN @ + 1 ELSE @]
            /\ routes' = IF e.Static /\ e.Default THEN RouteAdd(routes, n) ELSE routes
            /\ nerr' = IF napplied = {} THEN {} ELSE nerr
       ELSE /\ nerr' = (IF napplied = {} THEN {} ELSE nerr) \cup {n}
            /\ UNCHANGED <<Interfaces, renames, routes>>
    /\ UNCHANGED <<Networks, nround, prevPass>>
    /\ UNCHANGED coreVars

\* what a pass leaves behind
PassState == [Interfaces |-> Interfaces, renames |-> renames, routes |-> routes]
\* every endpoint of the snapshot has been applied: the pass is complete
NetConfigured ==
    /\ napplied = NetworkNames
    /\ napplied' = {}
    /\ nround' = nround + 1
    /\ prevPass' = PassState
    /\ UNCHANGED <<Interfaces, renames, Networks, nerr, routes>>
    /\ UNCHANGED coreVars

\* ------------------------------------------------------ specification
InitNetwork(cfg, up) ==
    /\ Interfaces = [i \in Slots |-> AddInterface(i, up)]
    /\ renames = [i \in Slots |-> 0]
    /\ Networks = cfg
    /\ napplied = {}
    /\ nerr = {}
    /\ nround = 0
    /\ routes = <<>>
    /\ prevPass = [Interfaces |-> [i \in Slots |-> AddInterface(i, up)],
                   renames |-> [i \in Slots |-> 0], routes |-> <<>>]

InitCore ==
    /\ pst = [p \in Pids |-> "unborn"]
    /\ wstatus = [p \in Pids |-> NoStatus]
    /\ chg = [p \in Pids |-> "none"]
    /\ psig = [p \in Pids |-> [sig |-> "none", by |-> NoOne]]
    /\ deathBy = [p \in Pids |-> NoOne]
    /\ sigchld = FALSE
    /\ nextPid = 1
    /\ childPidTable = [p \in Pids |-> NULL]
    /\ ExitStatus = [s \in SessionIds |-> 0]
    /\ mHolder = [s \in SessionIds |-> Free]
    /\ notify = FALSE
    /\ incoming = 0
    /\ incomingClosed = FALSE
    /\ done = FALSE
    /\ sendPanic = FALSE
    /\ rpc = "none" /\ rpid = 0 /\ rws = NoStatus /\ rsess = NULL
    /\ osReported = NoStatus /\ passPending = {} /\ passN = 0 /\ passEnd = "normal"
    /\ sup = "Booting" /\ cpc = "idle" /\ shpc = "idle"
    /\ config = NilConfig /\ nSnap = 0 /\ stopReq = FALSE
    /\ extReloaded = {} /\ extStarted = {} /\ stopErrs = {}
    /\ relaunch = FALSE /\ explicitStop = FALSE
    /\ cmdPid = [s \in SessionIds |-> 0]
    /\ extStopped = {}
    /\ tsession = NULL /\ tstopGen = 0 /\ tstopClosed = FALSE
    /\ hpc = [h \in Halts |-> "idle"]
    /\ hsess = [h \in Halts |-> NULL]
    /\ hchan = [h \in Halts |-> 0]
    /\ hres = [h \in Halts |-> "none"]
    /\ hforced = [h \in Halts |-> FALSE]
    /\ hvia = [h \in Halts |-> "none"]
    /\ hresp = [h \in Halts |-> "none"]
    /\ authRes = NoAuth
    /\ cmdRes = NoCmd
    /\ upg = [d \in Dispatchers |-> NoUpgrade]
    /\ appliance = [snaps |-> {}, power |-> "on", iso |-> "old"]
    /\ images = FALSE
    /\ upCalls = 0
    /\ backend = NoBackend
    /\ startPc = "idle" /\ onClosed = FALSE /\ serviceFailed = FALSE
    /\ startRes = "none" /\ startVia = "none"

Init == InitCore /\ InitNetwork(TestNetworks, TRUE)

ReaperStep(faults) ==
    \/ ReaperRecv
    \/ ReaperCheckDone
    \/ ReaperWait4
    \/ ReaperRemove
    \/ ReaperLock
    \/ ReaperSetStatus
    \/ \E panics \in faults : ReaperCallback(panics)

\* the snapshots of the reaper's specification declare both sessions
FullSnapshots == {c \in ValidSnapshots : c.Sessions = SessionIds /\ c.ID = "exec"}
\* the snapshots of the halt specification: both sessions under either ID,
\* or an empty session map
HaltSnapshots ==
    {c \in ValidSnapshots : c.hasMap /\ (c.Sessions = SessionIds \/ (c.Sessions = {} /\ c.ID = "exec"))}

Supervisor(snapshots) ==
    \/ \E ok \in BOOLEAN : ChildReaperStart(ok)
    \/ \E c \in snapshots : SupSnapshot(c)
    \/ SupReload
    \/ \E s \in SessionIds : SupLaunch(s)
    \/ RequestStop
    \/ SupBeginShutdown
    \/ SupExtStop(FALSE)
    \/ StopReaperReset
    \/ StopReaperCloseDone
    \/ StopReaperCloseIncoming

HaltCalls ==
    \/ \E h \in Halts : HaltBegin(h)
    \/ \E h \in Halts : HaltLock(h)
    \/ \E h \in Halts : HaltSignal(h)
    \/ \E h \in Halts : HaltStopped(h)
    \/ \E h \in Halts : HaltTimeout(h)
    \/ \E h \in Halts : HaltKill(h)

\* The reaper with its children, managed and adopted, from boot to shutdown.
Next ==
    \/ \E p \in Pids, ws \in OwnTerminations : ChildExit(p, ws)
    \/ \E p \in Pids, k \in {"stopped", "continued"} : ChildStopCont(p, k)
    \/ Adopt
    \/ DeliverSigchld
    \/ ReaperStep(BOOLEAN)
    \/ Supervisor(FullSnapshots)
    \/ SupStart
    \/ SupRelaunch

Spec == Init /\ [][Next]_vars

\* The reaper and the sessions the supervisor launches, with the reaper
\* goroutine scheduled fairly: it is never suspended for ever while it has
\* a step to take.
NextFair ==
    \/ \E p \in Pids, ws \in OwnTerminations : ChildExit(p, ws)
    \/ DeliverSigchld
    \/ ReaperStep(BOOLEAN)
    \/ Supervisor(FullSnapshots)
    \/ SupStart
    \/ SupRelaunch

SpecFair == Init /\ [][NextFair]_vars /\ WF_vars(ReaperStep(BOOLEAN))

\* Halt requests against the bound session, with the reaper and the
\* supervisor's reconfiguration and shutdown.
NextToolbox ==
    \/ \E p \in Pids : ChildExit(p, [kind |-> "exited", code |-> 1])
    \/ \E p \in Pids, dies \in BOOLEAN : ChildTakeSignal(p, dies)
    \/ DeliverSigchld
    \/ ReaperStep({FALSE})
    \/ Supervisor(HaltSnapshots)
    \/ SupStart
    \/ SupRelaunch
    \/ HaltCalls

SpecToolbox == Init /\ [][NextToolbox]_vars

\* Authentication against the binding the supervisor's reloads make, with
\* halt requests holding the session's lock.
NextAuth ==
    \/ Supervisor(ValidSnapshots)
    \/ SupStart
    \/ SupNewSnapshot
    \/ HaltCalls
    \/ \E wf \in BOOLEAN, name \in CredNames : ToolboxAuthenticate(wf, name)

SpecAuth == Init /\ [][NextAuth]_vars

\* The supervisor's state machine and the extension lifecycle: snapshots
\* that declare any of the sessions, reloads while Running, relaunches, and
\* Stop calls that fail.
SupSnapshots == {c \in ValidSnapshots : c.hasMap /\ c.ID = "exec"}
NextSup ==
    \/ \E p \in Pids : ChildExit(p, [kind |-> "exited", code |-> 1])
    \/ DeliverSigchld
    \/ ReaperStep({FALSE})
    \/ Supervisor(SupSnapshots)
    \/ SupStart
    \/ SupNewSnapshot
    \/ SupRelaunch
    \/ SupExtStop(TRUE)

SpecSup == Init /\ [][NextSup]_vars

\* Start-program requests against the bound session, with the children
\* taking their signals (dying from them or not) and the binding changed
\* by new snapshots.
NextCmd ==
    \/ \E p \in Pids, dies \in BOOLEAN : ChildTakeSignal(p, dies)
    \/ Supervisor(HaltSnapshots)
    \/ SupStart
    \/ SupNewSnapshot
    \/ \E path \in ProgramPaths, args \in SignalArgs : ContainerStartCommand(path, args)

SpecCmd == Init /\ [][NextCmd]_vars

\* Halt, kill and authenticate requests side by side while the supervisor configures,
\* reconfigures and shuts down; the sessions' processes take the signals
\* sent to them and stay alive.
NextKillHalt ==
    \/ \E p \in Pids : ChildTakeSignal(p, FALSE)
    \/ Supervisor(HaltSnapshots)
    \/ SupStart
    \/ SupNewSnapshot
    \/ HaltCalls
    \/ \E path \in ProgramPaths : ContainerStartCommand(path, "")
    \/ ToolboxAuthenticate(TRUE, "exec")

SpecKillHalt == Init /\ [][NextKillHalt]_vars

\* Upgrades of the appliance: calls of Upgrade by the dispatchers, one
\* after the other or at the same time, with every outcome of the vSphere
\* operations.
NextUpgrade ==
    \/ \E d \in Dispatchers, pre \in PreErrors \cup {"ok"} : UpgradeBegin(d, pre)
    \/ \E d \in Dispatchers, ok \in BOOLEAN : UpgradeCheck(d, ok)
    \/ \E d \in Dispatchers, ok \in BOOLEAN : UpgradeCreateSnapshot(d, ok)
    \/ \E d \in Dispatchers, r \in {"ok", "errPowerState", "errPowerOff"} : UpdatePower(d, r)
    \/ \E d \in Dispatchers, r \in ReconfigOutcomes : UpdateReconfig(d, r)
    \/ \E d \in Dispatchers, ok \in BOOLEAN, on \in BOOLEAN : UpdateStart(d, ok, on)
    \/ \E d \in Dispatchers, ok \in BOOLEAN : UpgradeDeleteSnapshot(d, ok)
    \/ \E d \in Dispatchers, ok \in BOOLEAN, on \in BOOLEAN : UpgradeRollback(d, ok, on)
    \/ \E d \in Dispatchers, r \in {"nil", "errRbPowerState", "errRbStart"} : UpgradeRollbackReady(d, r)

SpecUpgrade == Init /\ [][NextUpgrade]_vars

\* The engine's backends: one Init with every input and every answer of
\* the port layer, and callers of InsecureRegistries at any time.
NextBackends ==
    \/ \E addrOk \in BOOLEAN, cfg \in BackendConfigs, rs \in RegistryLists :
          BackendInit(addrOk, cfg, rs)
    \/ \E ok \in BOOLEAN : BackendPing(ok)
    \/ \E r \in StoreOutcomes : BackendCreateImageStore(r)
    \/ \E repoOk \in BOOLEAN : BackendCaches(repoOk)
    \/ BackendRegistry
    \/ BackendInsecureRegistries
    \/ \E i \in 1..(2 * MaxRegs) : CallerModifies(i)

SpecBackends == Init /\ [][NextBackends]_vars

\* The Start phase with Toolbox.Start taken step by step: the service may
\* fail to start, the power-on event may come or not, and the timer of the
\* select fires if Start is still waiting.
SelectCases == {"on", "timer"}
NextStart ==
    \/ Supervisor(SupSnapshots)
    \/ extStarted # AllExtensions /\ NextToStart # ToolboxIdx /\ SupStart
    \/ \E err \in BOOLEAN : ToolboxStart(err)
    \/ PowerOn
    \/ \E case \in SelectCases : ToolboxStartSelect(case)
    \/ SupNewSnapshot

SpecStart == Init /\ [][NextStart]_vars /\ WF_vars(ToolboxStartSelect("timer"))

\* The network configurator over every configuration of the endpoints,
\* applied and applied again.
InitNet == InitCore /\ \E cfg \in NetworkConfigs, up \in BOOLEAN : InitNetwork(cfg, up)
NextNet ==
    \/ \E n \in NetworkNames : NetApply(n)
    \/ NetConfigured

SpecNet == InitNet /\ [][NextNet]_vars

\* ------------------------------------------------------------- claims

\* C1: when the reaper is about to invoke the exit-completion callback for
\* a session, the session is no longer in the session table (a lookup of
\* its pid finds nothing) and its ExitStatus is the exit status of the wait
\* status the kernel reported for that pid.
C1_RemovedAndRecordedAtCallback ==
    rpc = "callback" =>
        /\ rsess # NULL
        /\ Lookup(rpid) = NULL
        /\ ExitStatus[rsess] = ExitStatusOf(osReported)
C1_Witness ==
    /\ rpc = "callback"
    /\ rsess = "exec"
    /\ Signaled(osReported)
    /\ ExitStatus["exec"] = -1
    /\ ExitStatus["aux"] = 1

C3_StopReaperOrder == (done => ~notify) /\ (incomingClosed => done)
C3_Witness == sup = "Stopped" /\ incomingClosed /\ done /\ ~notify

\* C4: during shutdown the reaper's notification subscription is torn
\* down only after the Stop of every extension has returned.
C4_ExtensionsStoppedBeforeReaper ==
    (sup \in {"ShuttingDown", "Stopped"} /\ (~notify \/ done \/ incomingClosed))
        => (extStopped = AllExtensions /\ tstopClosed)
C4_Witness ==
    sup = "ShuttingDown" /\ ~notify /\ ~done /\ extStopped = AllExtensions

\* C5 as stated: a halt during which the session's process died from the
\* halt's stop signal before the select took its case returns nil and
\* issues no forced kill.
C5_HaltResponsive ==
    \A h \in Halts :
        (hpc[h] = "done" /\ hresp[h] = "responded") => (hres[h] = "nil" /\ ~hforced[h])

\* C6 as stated: a halt whose grace period ran out with the session's
\* process still running issues the forced kill and returns nil.
C6_HaltUnresponsive ==
    \A h \in Halts :
        (hpc[h] = "done" /\ hvia[h] = "timer" /\ hresp[h] = "running")
            => (hforced[h] /\ hres[h] = "nil")

\* C7 as stated: no halt returns an error from signalling a process that
\* is gone because another halt's signal killed it.
C7_HaltReentrant ==
    \A h \in Halts :
        hres[h] \in {"errSignal", "errKill"}
            => deathBy[cmdPid[hsess[h]]] \notin (Halts \ {h})

\* C8: an authenticate call with a well-formed credential returns nil
\* exactly when a session is bound and the name is that session's ID; with
\* a session bound and another name it returns the mismatch error; the call
\* changes nothing of the session, its process or the binding.
C8_AuthenticateIffBoundAndMatching ==
    [][authRes' # authRes =>
        /\ authRes'.wf =>
            /\ (authRes'.res = "nil") <=> (authRes'.sess # NULL /\ authRes'.name = authRes'.sess)
            /\ (authRes'.sess # NULL /\ authRes'.name # authRes'.sess) => authRes'.res = "errMismatch"
        /\ UNCHANGED <<tsession, mHolder, ExitStatus, childPidTable, cmdPid, psig, pst>>]_vars
C8_Witness ==
    /\ authRes.called /\ authRes.wf
    /\ authRes.sess = "exec" /\ authRes.name = "aux"
    /\ authRes.res = "errMismatch"
    /\ tsession = "exec" /\ cmdPid["exec"] # 0

\* C9: an authenticate call with a well-formed credential that finds no
\* session bound returns the not-initialized error, whatever the name.
C9_AuthenticateUnboundNotInitialized ==
    (authRes.called /\ authRes.wf /\ authRes.sess = NULL) => authRes.res = "errNotInit"
C9_Witness ==
    /\ authRes.called /\ authRes.wf
    /\ authRes.sess = NULL /\ authRes.name = "exec"
    /\ authRes.res = "errNotInit"
    /\ nSnap > 0

\* C10: once a configuration pass is complete, each interface has exactly
\* the addresses of the static endpoints declared on its slot, each once.
StaticOn(i) == {n \in NetworkNames : Networks[n].Static /\ Networks[n].ID = i}
AddrSet(i) == {Interfaces[i].Addrs[k] : k \in 1..Len(Interfaces[i].Addrs)}
C10_AddressesAreUnionOfStatic ==
    (nround >= 1 /\ napplied = {}) =>
        \A i \in Slots :
            /\ AddrSet(i) = {Networks[n].IP : n \in StaticOn(i)}
            /\ Len(Interfaces[i].Addrs) = Cardinality(AddrSet(i))
C10_Witness ==
    /\ nround = 2 /\ napplied = {}
    /\ StaticOn(1) = {"bridge", "cnet"} /\ Len(Interfaces[1].Addrs) = 2
    /\ StaticOn(2) = {"external"} /\ Len(Interfaces[2].Addrs) = 1
    /\ Interfaces[1].Name = "bridge" /\ Interfaces[2].Name = "external"

\* C11: when the endpoints of a snapshot have been applied once more after
\* a complete pass, the interfaces (names, state, addresses), the count of
\* renames and the routes are what that pass left: nothing is added twice
\* and nothing is renamed again.
C11_ReapplyChangesNothing ==
    (nround >= 1 /\ napplied = NetworkNames) => PassState = prevPass
C11_Witness ==
    /\ nround = 1 /\ napplied = NetworkNames
    /\ renames[1] = 1 /\ Interfaces[1].Name = "bridge"
    /\ Len(Interfaces[1].Addrs) = 2
    /\ routes = <<"bridge">>
    /\ nerr = {"external"}

\* C12: an interface is renamed at most once, and once a pass is complete
\* an interface with an endpoint on its slot that asks for another name
\* than its kernel-assigned one has been renamed exactly once, to the name
\* one of its endpoints asks for.
RenameTargets(i) ==
    {Networks[n].Name : n \in {m \in NetworkNames : Networks[m].ID = i /\ Networks[m].Name # NoRename}}
C12_RenamedExactlyOnce ==
    \A i \in Slots :
        /\ renames[i] <= 1
        /\ (nround >= 1 /\ RenameTargets(i) # {}) =>
                (renames[i] = 1 /\ Interfaces[i].Name \in RenameTargets(i))
        /\ renames[i] = 0 => Interfaces[i].Name = KernelName(i)
C12_Witness ==
    /\ nround = 2 /\ napplied = {}
    /\ RenameTargets(1) = {"bridge", "cnet"}
    /\ renames[1] = 1 /\ Interfaces[1].Name = "cnet"
    /\ renames[2] = 0 /\ Interfaces[2].Name = KernelName(2)

\* C13: a session is launched only when every extension has been reloaded
\* with the snapshot in force (a new snapshot voids the reloads of the one
\* before); the extensions are started after the launch phase, in
\* registration order, and a pass ends only when every one has been started.
IsPrefix(S) == \A i \in S : \A j \in AllExtensions : j < i => j \in S
C13_ReloadBeforeLaunchStartAfter ==
    [][/\ nSnap' # nSnap => extReloaded' = {}
       /\ cmdPid' # cmdPid => (cpc = "launch" /\ extReloaded = AllExtensions)
       /\ extStarted' \ extStarted # {} =>
            (cpc \in {"launch", "start"} /\ extReloaded = AllExtensions /\ IsPrefix(extStarted'))
       /\ (cpc # "idle" /\ cpc' = "idle") => extStarted' = AllExtensions]_vars
C13_Witness ==
    /\ sup = "Running" /\ cpc = "idle"
    /\ nSnap = 2 /\ tstopGen = 2
    /\ extReloaded = AllExtensions /\ extStarted = AllExtensions
    /\ cmdPid["exec"] = 1 /\ cmdPid["aux"] = 2 /\ tsession = "exec"

\* C14: the extensions are stopped last registered first; an extension
\* whose Stop returned an error counts as stopped, and the shutdown goes on
\* to the reaper only when Stop has been called on every extension.
IsSuffix(S) == \A i \in S : \A j \in AllExtensions : j > i => j \in S
C14_StopReverseOrderErrorsCollected ==
    /\ IsSuffix(extStopped)
    /\ stopErrs \subseteq extStopped
    /\ shpc \notin {"idle", "extstop"} => extStopped = AllExtensions
C14_Witness ==
    /\ sup = "Stopped"
    /\ stopErrs = {2} /\ extStopped = AllExtensions
    /\ tstopClosed

SupMoves ==
    {<<"Booting", "Configuring">>, <<"Booting", "Failed">>, <<"Configuring", "Running">>,
     <<"Running", "ShuttingDown">>, <<"ShuttingDown", "Stopped">>}
C16_SupervisorMovesForward ==
    [][/\ sup' # sup => <<sup, sup'>> \in SupMoves
       /\ (notify' /\ ~notify) => sup = "Booting"
       /\ (cpc = "idle" /\ cpc' # "idle") =>
            (sup = "Booting" \/ (sup = "Running" /\ sup' = "Running"))
       /\ sup = "Stopped" => (cpc' = cpc /\ shpc' = shpc /\ extStopped' = extStopped)]_vars
C16_Witness ==
    /\ sup = "Stopped" /\ shpc = "finished"
    /\ nSnap = 2 /\ tstopGen = 2
    /\ ~notify /\ done /\ incomingClosed

StartReturns == ToolboxIdx \in extStarted' /\ ToolboxIdx \notin extStarted
C18_StartNeverBlocks ==
    /\ [][StartReturns =>
            IF serviceFailed'
            THEN startPc = "idle" /\ startRes' = "error" /\ startVia' = "none"
            ELSE /\ startPc = "select" /\ startRes' = "nil"
                 /\ startVia' \in SelectCases
                 /\ (startVia' = "on" => onClosed)]_vars
    /\ [](startPc = "select" => ~serviceFailed)
    /\ ((startPc = "select") ~> (startPc = "idle" /\ startRes = "nil"))
C18_Witness ==
    /\ startRes = "nil" /\ startVia = "timer" /\ ~onClosed
    /\ ToolboxIdx \in extStarted /\ tstopGen = 2

\* C19: a report of wait4 about a child that was stopped or continued
\* (neither exited nor killed by a signal) ends nothing: the session stays
\* in the table, no exit status changes, the exit callback is not invoked,
\* and the reaper goes on with the next reap attempt of the same drain.
NonExitReport ==
    /\ rpc = "wait4" /\ rpc' # "wait4"
    /\ \E p \in Pids : /\ pst[p] = "running" /\ pst'[p] = "running"
                        /\ chg[p] # "none" /\ chg'[p] = "none"
C19_NonExitChangeEndsNothing ==
    [][NonExitReport =>
         /\ childPidTable' = childPidTable
         /\ ExitStatus' = ExitStatus
         /\ rpc' = "check" /\ rsess' = rsess /\ rpid' = rpid
         /\ stopReq' = stopReq /\ relaunch' = relaunch
         /\ passEnd' = passEnd /\ passPending' = passPending]_vars
C19_Witness ==
    /\ rpc = "check" /\ osReported.kind = "stopped"
    /\ nextPid = 2 /\ pst[1] = "running" /\ chg[1] = "none"
    /\ childPidTable[1] # NULL /\ ExitStatus[childPidTable[1]] = 0
    /\ ~stopReq

\* C20: reaping a terminated pid that has no session record (an adopted
\* or orphaned process) invokes no exit callback, modifies no session and
\* raises no error, and the reaper goes on with the next reap attempt of
\* the same pass.
AdoptedReap == rpc = "remove" /\ rpc' # "remove" /\ childPidTable[rpid] = NULL
C20_AdoptedZombieIgnored ==
    [][AdoptedReap =>
         /\ childPidTable' = childPidTable
         /\ ExitStatus' = ExitStatus /\ mHolder' = mHolder
         /\ rpc' = "check" /\ rsess' = NULL
         /\ stopReq' = stopReq /\ relaunch' = relaunch
         /\ passEnd' = passEnd /\ passN' = passN
         /\ passPending' = passPending \ {rpid}]_vars
C20_Witness ==
    /\ rpc = "check" /\ rpid = 0 /\ passEnd = "normal"
    /\ passN = 2 /\ Cardinality(passPending) = 1
    /\ \E p \in Pids : /\ pst[p] = "reaped"
                        /\ \A s \in SessionIds : cmdPid[s] # p
                        /\ \E q \in passPending : q # p /\ childPidTable[q] # NULL

\* C21: the drain loop looks at the shutdown signal before every reap
\* attempt: wait4 is only ever called out of a check that found t.done open,
\* and an iteration that finds it closed calls no wait4, reaps nothing and
\* leaves the pass at once, whatever is still to be reaped.
C21_ShutdownCheckedBeforeEachReap ==
    [][/\ (rpc # "wait4" /\ rpc' = "wait4") => (rpc = "check" /\ ~done)
       /\ (rpc = "check" /\ done /\ rpc' # "check") =>
             /\ rpc' = "recv" /\ passEnd' = "shutdown"
             /\ pst' = pst /\ wstatus' = wstatus
             /\ childPidTable' = childPidTable /\ ExitStatus' = ExitStatus
             /\ passPending' = passPending]_vars
C21_Witness ==
    /\ rpc = "recv" /\ passEnd = "shutdown" /\ done
    /\ passN = 2 /\ Cardinality(passPending) = 1
    /\ \E p \in passPending : pst[p] = "zombie"
    /\ \E p \in Pids \ passPending : pst[p] = "reaped"

\* C22: a fault raised while a notification is handled, the exit callback
\* included, is caught inside the reaper: the goroutine ends only when
\* t.incoming is closed and empty, after a fault it is back at the range
\* over t.incoming, and what it does next is to take the next notification
\* and begin a fresh drain pass over every child terminated by then.
C22_FaultRecovered ==
    /\ [](rpc = "stopped" => (incomingClosed /\ incoming = 0))
    /\ [](passEnd = "panic" => rpc \in {"recv", "stopped"})
    /\ []((passEnd = "panic" /\ rpc = "recv" /\ incoming > 0) => ENABLED ReaperRecv)
    /\ [][(passEnd = "panic" /\ rpc = "recv" /\ rpc' # "recv") =>
             \/ /\ incoming > 0 /\ rpc' = "check" /\ passEnd' = "normal"
                /\ passPending' = {p \in Pids : pst[p] = "zombie"}
             \/ incoming = 0 /\ incomingClosed /\ rpc' = "stopped"]_vars
C22_Witness ==
    /\ passEnd = "panic" /\ rpc = "recv" /\ incoming > 0 /\ ~incomingClosed
    /\ \E p \in Pids : pst[p] = "zombie"
    /\ \E p \in Pids : pst[p] = "reaped" /\ childPidTable[p] = NULL

\* C23: when registering as subreaper fails, childReaper returns the error
\* and the reap loop is never started: this supervisor reaps no child,
\* removes no session and records no exit status, whatever its children do.
C23_PrctlFailureStartsNoReaper ==
    /\ [](sup = "Failed" =>
            /\ rpc = "none"
            /\ \A p \in Pids : pst[p] # "reaped" /\ childPidTable[p] = NULL
            /\ \A s \in SessionIds : ExitStatus[s] = 0)
    /\ [][sup = "Failed" => sup' = "Failed"]_vars
C23_Witness ==
    /\ sup = "Failed" /\ rpc = "none" /\ notify
    /\ incoming > 0
    /\ \E p \in Pids : pst[p] = "zombie"

\* C24: the start-program call knows the token "kill" only.  For "kill",
\* with a session bound whose process is running and an argument that
\* names a signal or is empty, the signal named (TERM for the empty
\* argument) is sent to that process and to no other, and nil is returned;
\* for any other token "unknown command" is returned and no signal is sent.
\* The result code is -1 in every case.
StartCommandCalled == cmdRes'.seq # cmdRes.seq
SentTo(p, sig) == psig'[p].sig = (IF psig[p].sig = "KILL" THEN "KILL" ELSE sig)
C24_StartCommandKnowsKillOnly ==
    [][StartCommandCalled =>
         LET r == cmdRes' IN
         /\ r.code = -1
         /\ (r.res = "errUnknown") <=> (r.path # "kill")
         /\ r.path # "kill" => psig' = psig
         /\ r.res # "nil" => psig' = psig
         /\ (/\ r.path = "kill" /\ r.sess # NULL /\ r.args \in SignalNames \cup {""}
             /\ cmdPid[r.sess] # 0 /\ pst[cmdPid[r.sess]] = "running")
              => /\ r.res = "nil"
                 /\ SentTo(cmdPid[r.sess], IF r.args = "" THEN "TERM" ELSE r.args)
                 /\ \A q \in Pids \ {cmdPid[r.sess]} : psig'[q] = psig[q]]_vars
C24_Witness ==
    /\ cmdRes.path = "kill" /\ cmdRes.args = "" /\ cmdRes.res = "nil" /\ cmdRes.sess = "aux"
    /\ cmdPid["aux"] # 0 /\ psig[cmdPid["aux"]] = [sig |-> "TERM", by |-> KillCall]
    /\ cmdPid["exec"] # 0 /\ psig[cmdPid["exec"]].sig = "none"

\* C25: an endpoint whose slot has no interface is an error of that
\* endpoint alone: reporting it changes no interface and no route, the
\* errors of a complete pass are exactly the unmatched endpoints, and every
\* matched endpoint is configured as it would be without them: its
\* interface is up, carries its static address and no address of an
\* unmatched endpoint, is renamed if a matched endpoint asks for it, and
\* the default route of a matched static endpoint is installed.
Matched == {n \in NetworkNames : Networks[n].ID \in Slots}
MatchedOn(i) == {n \in Matched : Networks[n].ID = i}
C25_UnmatchedEndpointErrorIsLocal ==
    /\ [][(\E n \in NetworkNames \ Matched : n \in napplied' /\ n \notin napplied) =>
             (Interfaces' = Interfaces /\ renames' = renames /\ routes' = routes)]_vars
    /\ [](napplied = NetworkNames =>
            /\ nerr = NetworkNames \ Matched
            /\ \A i \in Slots :
                 /\ MatchedOn(i) # {} => Interfaces[i].Up
                 /\ {Interfaces[i].Addrs[k] : k \in 1..Len(Interfaces[i].Addrs)}
                      = {Networks[n].IP : n \in {x \in MatchedOn(i) : Networks[x].Static}}
                 /\ (\E n \in MatchedOn(i) : Networks[n].Name # NoRename)
                      => \E n \in MatchedOn(i) : Interfaces[i].Name = Networks[n].Name
            /\ {routes[k] : k \in 1..Len(routes)}
                 = {n \in Matched : Networks[n].Static /\ Networks[n].Default})
C25_Witness ==
    /\ napplied = NetworkNames /\ nround = 0
    /\ nerr = {"bridge"} /\ Networks["bridge"].Static /\ Networks["bridge"].Default
    /\ Networks["cnet"].ID = 1 /\ Networks["cnet"].IP = "172.16.0.10/24"
    /\ Networks["external"].ID = 2 /\ Networks["external"].Name = "external"
    /\ Networks["external"].Static
    /\ ~prevPass.Interfaces[1].Up /\ Interfaces[1].Up /\ Interfaces[1].Addrs = <<"172.16.0.10/24">>
    /\ Interfaces[2].Name = "external" /\ Len(Interfaces[2].Addrs) = 1
    /\ routes = <<>>

\* C26: an Upgrade whose update step failed (the snapshot exists by then)
\* has attempted the revert to the snapshot and returns the error of the
\* update step, never nil and never the error of the rollback, whether the
\* rollback succeeded or not; an Upgrade that returns nil had its update
\* step succeed.
C26_UpgradeReturnsUpdateError ==
    \A d \in Dispatchers :
        upg[d].pc = "done" =>
            /\ upg[d].upd \in UpdateErrors =>
                  /\ upg[d].snap # 0
                  /\ "revert" \in upg[d].acts /\ upg[d].rb # "none"
                  /\ upg[d].res = upg[d].upd
                  /\ upg[d].res \notin RollbackErrors \cup {"nil"}
            /\ upg[d].res = "nil" => upg[d].upd = "nil"
C26_Witness ==
    /\ upg[1].pc = "done" /\ upg[1].upd = "errStart" /\ upg[1].rb = "errRbStart" /\ upg[1].res = "errStart"
    /\ upg[2].pc = "done" /\ upg[2].saw /\ upg[2].res = "errInProgress"
    /\ appliance.iso = "old"

\* C27: an Upgrade that finds an upgrade snapshot on the appliance returns
\* the "another upgrade in progress" error and has created no snapshot and
\* not powered off, reconfigured or reverted the appliance; and so there is
\* never more than one upgrade snapshot on the appliance.
C27_OneUpgradeSnapshot ==
    /\ \A d \in Dispatchers :
          upg[d].saw => (upg[d].res = "errInProgress" /\ upg[d].acts = {} /\ upg[d].snap = 0)
    /\ Cardinality({s \in appliance.snaps : s.upgrade}) <= 1

\* C28: a wait4 that returns ECHILD (there is no child at all) ends the
\* drain pass just as one that returns pid 0 (no child has anything to
\* report) does: no child, no table entry, no exit status changes, no
\* callback effect occurs, the pass is not marked cut short, and the reaper
\* is back at the range over t.incoming, where it can take the next
\* notification.
EmptyWait(r) == rpc = "wait4" /\ rpc' # "wait4" /\ Reportable = {} /\ Wait4Empty = r
EndsPassQuietly ==
    /\ rpc' = "recv"
    /\ pst' = pst /\ childPidTable' = childPidTable /\ ExitStatus' = ExitStatus
    /\ stopReq' = stopReq /\ relaunch' = relaunch
    /\ passEnd' = passEnd /\ passPending' = passPending
    /\ incoming' = incoming /\ sendPanic' = sendPanic
C28_EchildEndsPassLikeNoPending ==
    /\ [][(EmptyWait("ECHILD") => EndsPassQuietly) /\ (EmptyWait("pid0") => EndsPassQuietly)]_vars
    /\ []((rpc = "recv" /\ incoming > 0) => ENABLED ReaperRecv)
C28_Witness ==
    /\ rpc = "recv" /\ passEnd = "normal" /\ passN = 0
    /\ nextPid = MaxPid + 1
    /\ \A p \in Pids : pst[p] = "reaped"
    /\ incoming > 0

\* C29: drain passes never overlap. A notification is taken from t.incoming,
\* and a pass begun, only while no pass is executing; while a pass executes
\* (from the shutdown check to its last wait4 or callback) it remains the
\* one pass that was begun, and a notification that arrives meanwhile stays
\* in the channel until the reaper is back at the range.
InPass == rpc \in {"check", "wait4", "remove", "lock", "set", "callback"}
C29_DrainPassesDoNotOverlap ==
    /\ [][incoming' < incoming => (~InPass /\ rpc = "recv" /\ rpc' = "check")]_vars
    /\ [][InPass => (incoming' >= incoming /\ passN' = passN /\ passPending' \subseteq passPending)]_vars
C29_Witness ==
    /\ rpc \in {"lock", "set", "callback"}
    /\ incoming > 0
    /\ \E p \in Pids : pst[p] = "zombie"

\* C30: however child terminations and their notifications interleave with
\* the three steps of stopReaper, nothing is sent on t.incoming once it has
\* been closed: the send that would panic never happens, and the content of
\* the closed channel never grows.
C30_NoSendAfterClose ==
    /\ [](~sendPanic)
    /\ [][incomingClosed => (incoming' <= incoming /\ ~sendPanic')]_vars
    /\ [](incomingClosed => ~notify)
C30_Witness ==
    /\ incomingClosed /\ shpc = "finished"
    /\ sigchld
    /\ ~sendPanic

\* C31: once stopReaper has completed, the reaper goroutine eventually
\* terminates; and once t.done is closed and the reaper is at, or past,
\* its next check of it, it never again leaves the range and the check:
\* it calls no wait4, removes no session from the table, records no exit
\* status and fires no callback, whatever is still buffered in t.incoming.
AtOrPastCheck == rpc \in {"recv", "check", "stopped"}
C31_ReaperTerminatesAfterStop ==
    /\ (shpc = "finished") ~> (rpc = "stopped")
    /\ [][(done /\ AtOrPastCheck) =>
            /\ AtOrPastCheck'
            /\ \A p \in Pids : childPidTable[p] # NULL => childPidTable'[p] = childPidTable[p]
            /\ \A p \in Pids : pst[p] = "zombie" => pst'[p] = "zombie"
            /\ ExitStatus' = ExitStatus
            /\ stopReq' = stopReq /\ relaunch' = relaunch]_vars
C31_Witness ==
    /\ shpc = "finished" /\ done /\ incomingClosed
    /\ rpc = "recv" /\ passEnd = "shutdown"
    /\ incoming > 0
    /\ \E p \in Pids : pst[p] = "zombie" /\ childPidTable[p] # NULL

\* C32: every step of the reaper and of a halt request that reads or writes
\* a session's fields is taken while the one taking it holds that session's
\* own lock.
ReaperMoves == rpc' # rpc
HaltMoves(h) == hpc'[h] # hpc[h]
C32_FieldsAccessedUnderSessionLock ==
    [][/\ (ReaperMoves /\ ReaperTouches # NULL) => mHolder[ReaperTouches] = Reaper
       /\ \A h \in Halts : (HaltMoves(h) /\ HaltTouches(h) # NULL) => mHolder[HaltTouches(h)] = h]_vars

\* C33: with no session bound, a kill request and a halt request each
\* return their error in the step that makes the request, send no signal to
\* any process, take no session's lock, and leave the toolbox's binding and
\* stop channel and the supervisor's state as they were.
HaltCalled(h) == hpc[h] = "idle" /\ hpc'[h] # "idle"
NothingElseChanged ==
    /\ psig' = psig /\ pst' = pst
    /\ mHolder' = mHolder
    /\ toolboxVars' = toolboxVars
    /\ supVars' = supVars
C33_UnboundKillAndHaltFail ==
    [][/\ \A h \in Halts : (HaltCalled(h) /\ tsession = NULL) =>
             /\ hpc'[h] = "done" /\ hres'[h] = "errNotInit" /\ ~hforced'[h]
             /\ NothingElseChanged
       /\ (StartCommandCalled /\ cmdRes'.path = "kill" /\ tsession = NULL) =>
             /\ cmdRes'.res = "errNotFound" /\ cmdRes'.sess = NULL
             /\ NothingElseChanged]_vars
C33_Witness ==
    /\ tsession = NULL
    /\ \E h \in Halts : hpc[h] = "done" /\ hres[h] = "errNotInit"
    /\ cmdRes.path = "kill" /\ cmdRes.res = "errNotFound"
    /\ \E s \in SessionIds : cmdPid[s] # 0 /\ pst[cmdPid[s]] = "running"

\* C34: a halt request takes exactly one case of its one select, the stop
\* channel's or the timer's, and issues at most one forced kill: none when
\* it took the stop case, one when it took the timer's; the forced kill is
\* issued only out of the timer case, it ends the request, and a request
\* that has returned sends nothing more, whether or not the stop channel is
\* closed afterwards.
ForcedKillBy(h) == hforced'[h] # hforced[h]
C34_HaltOneTimerOneKill ==
    /\ [](\A h \in Halts :
            /\ hforced[h] => (hvia[h] = "timer" /\ hpc[h] = "done")
            /\ (hpc[h] = "done" /\ hvia[h] = "stop") => (~hforced[h] /\ hres[h] = "nil")
            /\ (hpc[h] = "done" /\ hvia[h] = "timer") => hforced[h]
            /\ hpc[h] = "forced" => hvia[h] = "timer")
    /\ [][\A h \in Halts :
            /\ ForcedKillBy(h) => (hpc[h] = "forced" /\ ~hforced[h] /\ hpc'[h] = "done")
            /\ hvia[h] # "none" => hvia'[h] = hvia[h]
            /\ hpc[h] = "done" =>
                  /\ hpc'[h] = "done" /\ hforced'[h] = hforced[h] /\ hres'[h] = hres[h]
                  /\ \A p \in Pids : psig'[p].by = h => psig'[p] = psig[p]]_vars
C34_Witness ==
    \E h \in Halts :
        /\ hpc[h] = "done" /\ hvia[h] = "timer" /\ hforced[h]
        /\ hchan[h] = tstopGen /\ tstopClosed

\* C35: a halt request holds its session's lock from before it sends the
\* stop signal until it returns; while it does, no kill and no authenticate
\* request on that session completes and no other halt request on it gets
\* past its Lock: each of them acts only with the lock free, that is after
\* the halt has returned.
HaltHolding(h) == hpc[h] \in {"signal", "select", "forced"}
KillActsOn(s) == StartCommandCalled /\ cmdRes'.path = "kill" /\ cmdRes'.sess = s
AuthActsOn(s) == authRes' # authRes /\ authRes'.wf /\ authRes'.sess = s
HaltLocks(g, s) == hpc[g] = "lock" /\ hpc'[g] # "lock" /\ hsess[g] = s
C35_HaltHoldsLockUntilReturn ==
    /\ [](\A h \in Halts : HaltHolding(h) => mHolder[hsess[h]] = h)
    /\ [][\A h \in Halts : HaltHolding(h) =>
            /\ ~KillActsOn(hsess[h])
            /\ ~AuthActsOn(hsess[h])
            /\ \A g \in Halts \ {h} : ~HaltLocks(g, hsess[h])]_vars
    /\ [][\A s \in SessionIds :
            (KillActsOn(s) \/ AuthActsOn(s) \/ \E g \in Halts : HaltLocks(g, s))
                => mHolder[s] = Free]_vars
C35_Witness ==
    \E h \in Halts : \E g \in Halts \ {h} :
        /\ hpc[h] = "done" /\ hvia[h] = "timer"
        /\ hpc[g] = "select" /\ hsess[g] = hsess[h] /\ mHolder[hsess[g]] = g
        /\ cmdRes.path = "kill" /\ cmdRes.sess = hsess[h] /\ cmdRes.res = "nil"
        /\ authRes.called /\ authRes.sess = hsess[h]

\* C36: Toolbox.Reload returns nil for every snapshot; called with a
\* snapshot that has a session map it binds the toolbox to the session
\* declared under the snapshot's own ID, or to none when the map has no
\* such entry; called with a nil snapshot or one without a map it leaves
\* the binding as it was; it changes nothing else of the toolbox.
ToolboxReloaded == ToolboxIdx \notin extReloaded /\ ToolboxIdx \in extReloaded'
C36_ReloadRebindsOrKeeps ==
    /\ [](\A c \in ValidSnapshots : ToolboxReloadResult(c) = "nil")
    /\ [][ToolboxReloaded =>
            /\ (~config.nil /\ config.hasMap /\ config.ID \in config.Sessions)
                  => tsession' = config.ID
            /\ (~config.nil /\ config.hasMap /\ config.ID \notin config.Sessions)
                  => tsession' = NULL
            /\ (config.nil \/ ~config.hasMap) => tsession' = tsession
            /\ tstopGen' = tstopGen /\ tstopClosed' = tstopClosed
            /\ mHolder' = mHolder]_vars
C36_Witness ==
    /\ ToolboxIdx \in extReloaded
    /\ nSnap = MaxSnapshots
    /\ (config.nil \/ ~config.hasMap)
    /\ tsession # NULL

\* C37 as stated: of a finished Upgrade that created its snapshot, the
\* snapshot is gone from the appliance exactly when Upgrade returned nil.
CreatedSnapshot(d) == upg[d].pc = "done" /\ "snapshot" \in upg[d].acts
SnapshotLeft(d) == \E s \in appliance.snaps : s.id = upg[d].snap
C38_UnsuccessfulReconfigureStopsUpdate ==
    \A d \in Dispatchers :
        upg[d].task \in {"errReconfig", "notSuccess"} =>
            /\ upg[d].pc # "start"
            /\ "start" \notin upg[d].acts
            /\ upg[d].upd \notin {"none", "nil"}

\* C39: Init creates the image store, starts the cache refreshes and
\* creates the registry service only after a ping of the port layer has
\* succeeded; while pings fail it has not returned, every failed ping is
\* followed by the wait for the next tick and another ping, one ping per
\* tick; with an address that is no host:port it has returned the error
\* with no ping made and no package variable assigned.
PingFailed == backend'.pings = backend.pings + 1 /\ ~backend'.up
C39_InitWaitsForPortLayer ==
    /\ []((backend.store \/ backend.caches \/ backend.registry
              \/ backend.pc \in {"store", "caches", "registry"}) => backend.up)
    /\ [](backend.pc = "ping" => (backend.res = "none" /\ ~backend.up))
    /\ [](backend.pings = backend.ticks)
    /\ [][PingFailed => (backend'.pc = "ping" /\ backend'.res = "none")]_vars
    /\ [](backend.addr = "invalid" =>
            /\ backend.pc = "done" /\ backend.res = "errAddr"
            /\ backend.pings = 0 /\ backend.pkg = {} /\ backend.name = ""
            /\ backend.regs = <<>> /\ ~backend.store /\ ~backend.caches /\ ~backend.registry)
C39_Witness ==
    /\ backend.pings = MaxPings + 1 /\ backend.up
    /\ backend.store /\ backend.caches /\ backend.registry
    /\ backend.res = "nil"

\* C40: the list InsecureRegistries returns holds exactly the registries
\* recorded when it was called, in their order and with their number, and
\* a caller that modifies it leaves the recorded ones as they were.
C40_InsecureRegistriesIsExactCopy ==
    /\ [](backend.called => backend.ret = backend.at)
    /\ [][backend'.mine # backend.mine /\ backend'.ret = backend.ret
            => backend'.regs = backend.regs]_vars

====
